---- MODULE Spec2Model ----
(***************************************************************************)
(* A model of domain-forge's snipe engine (src/snipe/scanner.rs,           *)
(* src/snipe/state.rs), its name-space enumerators (src/snipe/generator.rs,*)
(* src/snipe/filter.rs), the recheck engine and the gate of the            *)
(* interactive checker (src/domain/checker.rs).                            *)
(*                                                                         *)
(* Time is counted in hours; the probe instant is 0 and an expiration      *)
(* instant is an offset from it.  An Option<T> is a sequence of length 0   *)
(* (None) or 1 (Some).  A name is a sequence of one-character strings and  *)
(* an fqdn ("{name}.{tld}") is the pair <<name, tld>>.                     *)
(***************************************************************************)
EXTENDS Integers, Sequences, FiniteSets, TLC

(***************************************************************************)
(* Bounds of the model.                                                    *)
(***************************************************************************)
MaxLength == 2
MaxBatchSize == 2
MaxConcurrency == 2
MaxSaveInterval == 2
MaxKills == 1
MaxRechecks == 2
MaxEntries == 2
MaxDomains == 2
MaxDays == 2
ScanAge == 24
MaxWords == 3
MaxMessage == 2
MaxCalls == 2
MaxBeyond == 2
MaxFlags == 2

(* The alphabets, cut down to the first letters: Charset::chars,           *)
(* VOWELS, CONSONANTS, VALUABLE_PREFIXES, VALUABLE_SUFFIXES, and the       *)
(* letters b'a' + k of the prefix/suffix patterns.                         *)
Letters == <<"a", "b">>
VOWELS == <<"a">>
CONSONANTS == <<"b">>
VALUABLE_PREFIXES == << <<"b", "a">> >>
VALUABLE_SUFFIXES == << <<"a", "b">> >>
ALPHA == <<"a", "b">>

None == <<>>
Some(x) == <<x>>
IsSome(o) == Len(o) = 1
Unwrap(o) == o[1]

Min(a, b) == IF a < b THEN a ELSE b
Max(a, b) == IF a > b THEN a ELSE b

RECURSIVE Pow(_, _)
Pow(b, e) == IF e = 0 THEN 1 ELSE b * Pow(b, e - 1)

(***************************************************************************)
(* rdap/registry.rs: the TLDs that have an RDAP endpoint.                  *)
(***************************************************************************)
RdapTlds == {"com", "net", "org", "io", "ai", "tech", "app", "dev", "xyz", "co", "me"}
rdap_base_url(tld) == IF tld \in RdapTlds THEN Some(tld) ELSE None

(***************************************************************************)
(* snipe/mod.rs: Charset.  The digits are cut down like the letters.       *)
(***************************************************************************)
Digits == <<"0">>

chars(charset) == IF charset = "Letters" THEN Letters ELSE Letters \o Digits

total_combinations(charset, length) == Pow(Len(chars(charset)), length)

(***************************************************************************)
(* snipe/generator.rs: DomainGenerator (ScanMode::Full).                   *)
(***************************************************************************)
RECURSIVE Positional(_, _, _, _)
Positional(result, i, n, cs) ==
    IF i = 0 THEN result
    ELSE Positional([result EXCEPT ![i] = cs[(n % Len(cs)) + 1]], i - 1, n \div Len(cs), cs)

domain_at(charset, length, index) ==
    IF index >= total_combinations(charset, length) THEN None
    ELSE Some(Positional([i \in 1..length |-> " "], length, index, chars(charset)))

(* A batch that stops after the first name. *)
FullNextBatchOne(charset, length, cur, count, batch) ==
    IF count = 0 \/ ~IsSome(domain_at(charset, length, cur))
    THEN [gen |-> [pat |-> 0, idx |-> cur], batch |-> batch]
    ELSE [gen |-> [pat |-> 0, idx |-> cur + 1],
          batch |-> Append(batch, Unwrap(domain_at(charset, length, cur)))]

RECURSIVE FullNextBatch(_, _, _, _, _)
FullNextBatch(charset, length, cur, count, batch) ==
    IF count = 0 \/ ~IsSome(domain_at(charset, length, cur))
    THEN [gen |-> [pat |-> 0, idx |-> cur], batch |-> batch]
    ELSE FullNextBatch(charset, length, cur + 1, count - 1,
                       Append(batch, Unwrap(domain_at(charset, length, cur))))

(***************************************************************************)
(* snipe/filter.rs: PronounceableGenerator.  A generator is the record     *)
(* [pat |-> current_pattern_idx, idx |-> current_index]; patterns are      *)
(* numbered from 0 as in the code.                                         *)
(***************************************************************************)
NumPatterns == 7

pattern_size(p) ==
    LET c == Len(CONSONANTS)
        v == Len(VOWELS)
    IN CASE p = 0 -> c * v * c * v
         [] p = 1 -> c * v * c * c
         [] p = 2 -> c * c * v * c
         [] p = 3 -> c * v * v * c
         [] p = 4 -> v * c * v * c
         [] p = 5 -> Len(VALUABLE_PREFIXES) * Len(ALPHA) * Len(ALPHA)
         [] OTHER -> Len(ALPHA) * Len(ALPHA) * Len(VALUABLE_SUFFIXES)

RECURSIVE SumSizes(_)
SumSizes(p) == IF p = 0 THEN 0 ELSE pattern_size(p - 1) + SumSizes(p - 1)

PronTotal == SumSizes(NumPatterns)

generate_for_pattern(p, index) ==
    LET c == Len(CONSONANTS)
        v == Len(VOWELS)
        n == Len(ALPHA)
        C(i) == CONSONANTS[i + 1]
        V(i) == VOWELS[i + 1]
        A(i) == ALPHA[i + 1]
    IN CASE p = 0 ->
              LET i0 == index \div (v * c * v)  r0 == index % (v * c * v)
                  i1 == r0 \div (c * v)         r1 == r0 % (c * v)
              IN Some(<<C(i0), V(i1), C(r1 \div v), V(r1 % v)>>)
         [] p = 1 ->
              LET i0 == index \div (v * c * c)  r0 == index % (v * c * c)
                  i1 == r0 \div (c * c)         r1 == r0 % (c * c)
              IN Some(<<C(i0), V(i1), C(r1 \div c), C(r1 % c)>>)
         [] p = 2 ->
              LET i0 == index \div (c * v * c)  r0 == index % (c * v * c)
                  i1 == r0 \div (v * c)         r1 == r0 % (v * c)
              IN Some(<<C(i0), C(i1), V(r1 \div c), C(r1 % c)>>)
         [] p = 3 ->
              LET i0 == index \div (v * v * c)  r0 == index % (v * v * c)
                  i1 == r0 \div (v * c)         r1 == r0 % (v * c)
              IN Some(<<C(i0), V(i1), V(r1 \div c), C(r1 % c)>>)
         [] p = 4 ->
              LET i0 == index \div (c * v * c)  r0 == index % (c * v * c)
                  i1 == r0 \div (v * c)         r1 == r0 % (v * c)
              IN Some(<<V(i0), C(i1), V(r1 \div c), C(r1 % c)>>)
         [] p = 5 ->
              LET pi == index \div (n * n)
                  r == index % (n * n)
              IN IF pi >= Len(VALUABLE_PREFIXES) THEN None
                 ELSE Some(VALUABLE_PREFIXES[pi + 1] \o <<A(r \div n), A(r % n)>>)
         [] OTHER ->
              LET sc == Len(VALUABLE_SUFFIXES)
                  ci == index \div sc
                  si == index % sc
              IN IF si >= sc \/ ci \div n >= n THEN None
                 ELSE Some(<<A(ci \div n), A(ci % n)>> \o VALUABLE_SUFFIXES[si + 1])

PronExhausted(g) == g.pat >= NumPatterns

PronCurrentIndex(g) == g.idx + SumSizes(g.pat)

RECURSIVE PronSetIndexFrom(_, _)
PronSetIndexFrom(p, remaining) ==
    IF p >= NumPatterns THEN [pat |-> NumPatterns, idx |-> 0]
    ELSE IF remaining < pattern_size(p) THEN [pat |-> p, idx |-> remaining]
    ELSE PronSetIndexFrom(p + 1, remaining - pattern_size(p))

PronSetIndex(global_index) == PronSetIndexFrom(0, global_index)

RECURSIVE PronNextBatch(_, _, _, _)
PronNextBatch(g, count, batch, seen) ==
    IF Len(batch) >= count \/ PronExhausted(g)
    THEN [gen |-> g, batch |-> batch]
    ELSE IF g.idx >= pattern_size(g.pat)
    THEN PronNextBatch([pat |-> g.pat + 1, idx |-> 0], count, batch, seen)
    ELSE LET d == generate_for_pattern(g.pat, g.idx)
             g2 == [g EXCEPT !.idx = @ + 1]
         IN IF IsSome(d) /\ Unwrap(d) \notin seen
            THEN PronNextBatch(g2, count, Append(batch, Unwrap(d)), seen \cup {Unwrap(d)})
            ELSE PronNextBatch(g2, count, batch, seen)

(***************************************************************************)
(* snipe/words.rs: WordGenerator.  words is the list new() leaves: sorted, *)
(* without duplicates, cut down to three words.                            *)
(***************************************************************************)
words ==
    << <<"a", "b", "o", "u", "t">>, <<"c", "l", "o", "u", "d">>, <<"p", "i", "x", "e", "l">> >>

(* The index taken as it is given. *)
WordsSetIndexUnclamped(index) == [pat |-> 0, idx |-> index]

WordsSetIndex(index) == [pat |-> 0, idx |-> Min(index, Len(words))]

WordsExhausted(g) == g.idx >= Len(words)

WordsNextBatch(g, count) ==
    LET end == Min(g.idx + count, Len(words))
    IN [gen |-> [pat |-> 0, idx |-> end], batch |-> SubSeq(words, g.idx + 1, end)]

(***************************************************************************)
(* snipe/six.rs: SixLetterGenerator, with its alphabets cut down to one    *)
(* vowel and three consonants.  Pattern 0 is Cvcvcv, pattern 1 is Vcvcvc.  *)
(***************************************************************************)
SixVowels == <<"a">>
CORE_CONSONANTS == <<"b", "c", "d">>
SixPatterns == 2

SixPatternSize == Pow(Len(CORE_CONSONANTS), 3) * Pow(Len(SixVowels), 3)

SixTotal == SixPatternSize + SixPatternSize

SixCurrentIndex(g) == g.idx + g.pat * SixPatternSize

SixSetIndex(global_index) ==
    IF global_index < SixPatternSize THEN [pat |-> 0, idx |-> global_index]
    ELSE IF global_index - SixPatternSize < SixPatternSize
    THEN [pat |-> 1, idx |-> global_index - SixPatternSize]
    ELSE [pat |-> SixPatterns, idx |-> 0]

SixExhausted(g) == g.pat >= SixPatterns

SixGenerateForPattern(p, index) ==
    LET c == Len(CORE_CONSONANTS)
        v == Len(SixVowels)
        C(i) == CORE_CONSONANTS[i + 1]
        V(i) == SixVowels[i + 1]
    IN IF p = 0
       THEN LET i0 == index \div (v * c * v * c * v)  r0 == index % (v * c * v * c * v)
                i1 == r0 \div (c * v * c * v)         r1 == r0 % (c * v * c * v)
                i2 == r1 \div (v * c * v)             r2 == r1 % (v * c * v)
                i3 == r2 \div (c * v)                 r3 == r2 % (c * v)
                i4 == r3 \div v                       i5 == r3 % v
            IN IF i0 >= c \/ i2 >= c \/ i4 >= c \/ i1 >= v \/ i3 >= v \/ i5 >= v THEN None
               ELSE Some(<<C(i0), V(i1), C(i2), V(i3), C(i4), V(i5)>>)
       ELSE LET i0 == index \div (c * v * c * v * c)  r0 == index % (c * v * c * v * c)
                i1 == r0 \div (v * c * v * c)         r1 == r0 % (v * c * v * c)
                i2 == r1 \div (c * v * c)             r2 == r1 % (c * v * c)
                i3 == r2 \div (v * c)                 r3 == r2 % (v * c)
                i4 == r3 \div c                       i5 == r3 % c
            IN IF i1 >= c \/ i3 >= c \/ i5 >= c \/ i0 >= v \/ i2 >= v \/ i4 >= v THEN None
               ELSE Some(<<V(i0), C(i1), V(i2), C(i3), V(i4), C(i5)>>)

RECURSIVE SixNextBatch(_, _, _)
SixNextBatch(g, count, batch) ==
    IF Len(batch) >= count \/ SixExhausted(g)
    THEN [gen |-> g, batch |-> batch]
    ELSE IF g.idx >= SixPatternSize
    THEN SixNextBatch([pat |-> g.pat + 1, idx |-> 0], count, batch)
    ELSE LET s == SixGenerateForPattern(g.pat, g.idx)
             g2 == [g EXCEPT !.idx = @ + 1]
         IN SixNextBatch(g2, count, IF IsSome(s) THEN Append(batch, Unwrap(s)) ELSE batch)

(***************************************************************************)
(* snipe/scanner.rs: GeneratorKind, the dispatch on the scan mode.         *)
(***************************************************************************)
GenTotal(cfg) ==
    CASE cfg.mode = "Full" -> total_combinations(cfg.charset, cfg.length)
      [] cfg.mode = "Pronounceable" -> PronTotal
      [] cfg.mode = "Words" -> Len(words)
      [] OTHER -> SixTotal

GenNew == [pat |-> 0, idx |-> 0]

is_exhausted(cfg, g) ==
    CASE cfg.mode = "Full" -> g.idx >= total_combinations(cfg.charset, cfg.length)
      [] cfg.mode = "Pronounceable" -> PronExhausted(g)
      [] cfg.mode = "Words" -> WordsExhausted(g)
      [] OTHER -> SixExhausted(g)

current_index(cfg, g) ==
    CASE cfg.mode = "Full" -> g.idx
      [] cfg.mode = "Pronounceable" -> PronCurrentIndex(g)
      [] cfg.mode = "Words" -> g.idx
      [] OTHER -> SixCurrentIndex(g)

set_index(cfg, index) ==
    CASE cfg.mode = "Full" ->
            [pat |-> 0, idx |-> Min(index, total_combinations(cfg.charset, cfg.length))]
      [] cfg.mode = "Pronounceable" -> PronSetIndex(index)
      [] cfg.mode = "Words" -> WordsSetIndex(index)
      [] OTHER -> SixSetIndex(index)

next_batch(cfg, g, count) ==
    CASE cfg.mode = "Full" -> FullNextBatch(cfg.charset, cfg.length, g.idx, count, <<>>)
      [] cfg.mode = "Pronounceable" -> PronNextBatch(g, count, <<>>, {})
      [] cfg.mode = "Words" -> WordsNextBatch(g, count)
      [] OTHER -> SixNextBatch(g, count, <<>>)

(* The length DomainSniper::new records in the state. *)
effective_length(cfg) ==
    CASE cfg.mode = "Full" -> cfg.length
      [] cfg.mode = "Pronounceable" -> 4
      [] cfg.mode = "Words" -> 5
      [] OTHER -> 6


(***************************************************************************)
(* The state of the program.                                               *)
(***************************************************************************)
VARIABLES
    sys,        \* the entry point a behaviour exercises: "snipe", "recheck", "checker"
    config,     \* SnipeConfig (snipe), the recheck arguments, or CheckConfig
    gen,        \* DomainSniper.generator
    state,      \* DomainSniper.state, or the ScanState a recheck works on
    pc,         \* where the driver task stands
    tasks,      \* the probe futures handed to join_all
    permits,    \* free permits of the Semaphore
    last_save,  \* run's local last_save
    disk,       \* the state file: Absent, Torn (empty or cut short) or a ScanState
    now,        \* Utc::now(), in hours
    world,      \* the registry: the responses it may give, and whether it is static
    registry,   \* the responses a static registry has given so far, by fqdn
    hist,       \* history: kills, probes answered, last completed save
    ret         \* what the call has returned: None, or Some(value)

vars == <<sys, config, gen, state, pc, tasks, permits, last_save, disk, now,
          world, registry, hist, ret>>

Absent == [file |-> "absent"]
Torn == [file |-> "torn"]
Garbage == [file |-> "garbage"]
IsSnapshot(d) == "current_index" \in DOMAIN d

(***************************************************************************)
(* A registry response: code 0 is a transport failure (send() is Err),     *)
(* json tells whether the body parses, exp is the eventDate of the first   *)
(* "expiration" event when there is one and it parses as RFC 3339.         *)
(***************************************************************************)
Resp(code, json, exp) == [code |-> code, json |-> json, exp |-> exp]
NotFound == Resp(404, FALSE, None)
ServerError == Resp(500, FALSE, None)
TransportError == Resp(0, FALSE, None)
BadBody == Resp(200, FALSE, None)
NoExpiration == Resp(200, TRUE, None)
ExpiresAt(h) == Resp(200, TRUE, Some(h))

(* chrono::Duration::num_days: whole days, truncated toward zero. *)
NumDays(h) == IF h >= 0 THEN h \div 24 ELSE -((-h) \div 24)

(***************************************************************************)
(* snipe/state.rs: ScanState and its mutators.                             *)
(***************************************************************************)
ScanStateNew(length, tlds, total, t) ==
    [ update_times |-> <<>>,
      scan_id |-> <<length, t>>,
      length |-> length,
      tlds |-> tlds,
      current_index |-> 0,
      total_combinations |-> total,
      available |-> <<>>,
      expired |-> <<>>,
      expiring_soon |-> <<>>,
      errors |-> <<>>,
      checked_count |-> 0,
      error_count |-> 0,
      started_at |-> t,
      updated_at |-> t,
      completed |-> FALSE ]

(* The push that puts the new entry in front. *)
add_available_front(st, d, t) ==
    [st EXCEPT !.available = <<d>> \o @, !.updated_at = t]

add_available(st, d, t) ==
    [st EXCEPT !.available = Append(@, d), !.updated_at = t]

add_expiring(st, d, t) ==
    [st EXCEPT !.expiring_soon = Append(@, d), !.updated_at = t]

(* The push that leaves error_count as it is. *)
add_error_uncounted(st, f, t) ==
    [st EXCEPT !.errors = Append(@, f), !.updated_at = t]

add_error(st, f, t) ==
    [st EXCEPT !.errors = Append(@, f), !.error_count = @ + 1, !.updated_at = t]

update_progress(st, index, checked, errors, t) ==
    [st EXCEPT !.current_index = index, !.checked_count = checked,
               !.error_count = errors, !.updated_at = t]

mark_completed(st, t) == [st EXCEPT !.completed = TRUE, !.updated_at = t]

(* error.rs: the errors of ScanState::load and ScanState::save. *)
ErrIo == [variant |-> "Io"]

(* The parse error that does not say what was read. *)
ErrParseBare(content) == [variant |-> "Parse", content |-> None]

ErrParseContent(content) == [variant |-> "Parse", content |-> Some(content)]

(* ScanState::load: Err(Io) for a missing file, Err(Parse), with what was   *)
(* read, for a document serde_json rejects, else the state.                 *)
load(d) ==
    IF d = Absent THEN [ok |-> FALSE, err |-> ErrIo]
    ELSE IF ~IsSnapshot(d) THEN [ok |-> FALSE, err |-> ErrParseContent(d)]
    ELSE [ok |-> TRUE, state |-> d]

(***************************************************************************)
(* snipe/scanner.rs: DomainSniper::new.                                    *)
(***************************************************************************)
SniperNewState(cfg, t) ==
    ScanStateNew(effective_length(cfg),
                 cfg.tlds, GenTotal(cfg) * Len(cfg.tlds), t)

(***************************************************************************)
(* snipe/scanner.rs: check_batch, one probe after it holds its permit and  *)
(* has an RDAP url: the SnipeResult for a response.                        *)
(***************************************************************************)
SnipeResult(name, tld, status, exp, days, err) ==
    [domain |-> name, tld |-> tld, status |-> status, expiration_date |-> exp,
     days_until_expiry |-> days, error_message |-> err]

SnipeProbe(name, tld, resp, expiring_days, t) ==
    IF resp.code = 0
    THEN SnipeResult(name, tld, "Error", None, None, Some(<<"transport">>))
    ELSE IF resp.code = 404
    THEN SnipeResult(name, tld, "Available", None, None, None)
    ELSE IF resp.code = 200
    THEN LET expiration == IF resp.json THEN resp.exp ELSE None
             days_until == IF IsSome(expiration)
                           THEN Some(NumDays(Unwrap(expiration) - t)) ELSE None
             is_expiring == IsSome(days_until) /\ Unwrap(days_until) > 0
                            /\ Unwrap(days_until) <= expiring_days
         IN SnipeResult(name, tld, IF is_expiring THEN "ExpiringSoon" ELSE "Taken",
                        expiration, days_until, None)
    ELSE SnipeResult(name, tld, "Error", None, None, Some(<<"HTTP", resp.code>>))

(***************************************************************************)
(* snipe/scanner.rs: run, the processing of one result and of the batch.   *)
(***************************************************************************)
SnipedDomain(r, t) ==
    [domain |-> r.domain, tld |-> r.tld, expiration_date |-> r.expiration_date,
     days_until_expiry |-> r.days_until_expiry, found_at |-> t]

FailedDomain(r, t) ==
    [domain |-> r.domain, tld |-> r.tld,
     error |-> IF IsSome(r.error_message) THEN Unwrap(r.error_message) ELSE <<"Unknown error">>]

ProcessResult(st, r, t) ==
    LET is_expired == IsSome(r.days_until_expiry) /\ Unwrap(r.days_until_expiry) <= 0
                      /\ IsSome(r.expiration_date)
        s1 == CASE r.status = "Available" -> add_available(st, SnipedDomain(r, t), t)
                [] r.status = "ExpiringSoon" -> add_expiring(st, SnipedDomain(r, t), t)
                [] r.status = "Error" -> add_error(st, FailedDomain(r, t), t)
                [] OTHER -> IF is_expired
                            THEN [st EXCEPT !.expired = Append(@, SnipedDomain(r, t)),
                                            !.updated_at = t]
                            ELSE st
    IN [s1 EXCEPT !.checked_count = @ + 1]

RECURSIVE ProcessResults(_, _, _)
ProcessResults(st, results, t) ==
    IF results = <<>> THEN st
    ELSE ProcessResults(ProcessResult(st, Head(results), t), Tail(results), t)

(* names x tlds, name-major, as the flat_map of run builds them. *)
RECURSIVE CheckTasks(_, _)
CheckTasks(names, tlds) ==
    IF names = <<>> THEN <<>>
    ELSE [k \in 1..Len(tlds) |-> [name |-> Head(names), tld |-> tlds[k],
                                  st |-> "wait", result |-> None]]
         \o CheckTasks(Tail(names), tlds)

(* join_all(futures).into_iter().flatten(): the Some results, in task order. *)
RECURSIVE Flatten(_)
Flatten(ts) ==
    IF ts = <<>> THEN <<>>
    ELSE Head(ts).result \o Flatten(Tail(ts))

AllDone(ts) == \A i \in 1..Len(ts) : ts[i].st = "done"
InFlight(ts) == Cardinality({i \in 1..Len(ts) : ts[i].st = "inflight"})


(***************************************************************************)
(* The registry.  A static registry answers an fqdn the way it answered it *)
(* before; a registry that is not static may change between two probes.    *)
(***************************************************************************)
Fqdn(name, tld) == <<name, tld>>

Answers(fq) ==
    IF fq \in DOMAIN registry THEN {registry[fq]} ELSE world.bodies

Remember(fq, resp) ==
    IF world.static /\ fq \notin DOMAIN registry THEN registry @@ (fq :> resp) ELSE registry

(***************************************************************************)
(* snipe/scanner.rs: DomainSniper::run, one action per step between two    *)
(* suspension points.                                                      *)
(***************************************************************************)
Running == pc \in {"loop", "join", "save", "save_write", "final", "final_write"}

(* The loop guard fails: mark_completed, then the final save. *)
LoopExit ==
    /\ sys = "snipe" /\ pc = "loop"
    /\ is_exhausted(config, gen)
    /\ state' = mark_completed(state, now)
    /\ pc' = "final"
    /\ UNCHANGED <<sys, config, gen, tasks, permits, last_save, disk, now, world,
                   registry, hist, ret>>

(* next_batch and the names x tlds tasks; an empty batch breaks the loop. *)
NextBatch ==
    /\ sys = "snipe" /\ pc = "loop"
    /\ ~is_exhausted(config, gen)
    /\ LET nb == next_batch(config, gen, config.batch_size)
       IN /\ gen' = nb.gen
          /\ IF nb.batch = <<>>
             THEN /\ state' = mark_completed(state, now)
                  /\ pc' = "final"
                  /\ tasks' = tasks
             ELSE /\ state' = state
                  /\ pc' = "join"
                  /\ tasks' = CheckTasks(nb.batch, config.tlds)
    /\ UNCHANGED <<sys, config, permits, last_save, disk, now, world, registry, hist, ret>>

(* A probe future gets its permit.  Without an RDAP url for the tld it     *)
(* returns None at once and drops the permit; else the request is sent.    *)
(* The probe that goes on without taking a permit. *)
acquire_nothing(p) == p

acquire(p) == p - 1

Acquire(i) ==
    /\ sys = "snipe" /\ pc = "join"
    /\ tasks[i].st = "wait"
    /\ permits > 0
    /\ IF IsSome(rdap_base_url(tasks[i].tld))
       THEN /\ tasks' = [tasks EXCEPT ![i].st = "inflight"]
            /\ permits' = acquire(permits)
       ELSE /\ tasks' = [tasks EXCEPT ![i].st = "done"]
            /\ permits' = permits
    /\ UNCHANGED <<sys, config, gen, state, pc, last_save, disk, now, world, registry, hist, ret>>

(* The registry answers (or the transport fails); the future returns its   *)
(* SnipeResult and drops the permit.                                       *)
(* The probe that records its own result in the ScanState when it returns. *)
RespondWrites(i) ==
    /\ sys = "snipe" /\ pc = "join"
    /\ tasks[i].st = "inflight"
    /\ \E resp \in Answers(Fqdn(tasks[i].name, tasks[i].tld)) :
          /\ tasks' = [tasks EXCEPT ![i].st = "done"]
          /\ state' = ProcessResult(state, SnipeProbe(tasks[i].name, tasks[i].tld, resp,
                                                     config.expiring_days, now), now)
          /\ registry' = Remember(Fqdn(tasks[i].name, tasks[i].tld), resp)
    /\ permits' = permits + 1
    /\ UNCHANGED <<sys, config, gen, pc, last_save, disk, now, world, hist, ret>>

Respond(i) ==
    /\ sys = "snipe" /\ pc = "join"
    /\ tasks[i].st = "inflight"
    /\ \E resp \in Answers(Fqdn(tasks[i].name, tasks[i].tld)) :
          /\ tasks' = [tasks EXCEPT ![i].st = "done",
                          ![i].result = Some(SnipeProbe(tasks[i].name, tasks[i].tld, resp,
                                                         config.expiring_days, now))]
          /\ registry' = Remember(Fqdn(tasks[i].name, tasks[i].tld), resp)
    /\ permits' = permits + 1
    /\ UNCHANGED <<sys, config, gen, state, pc, last_save, disk, now, world, hist, ret>>

(* join_all has returned: the results are processed, the cursor advances,  *)
(* and the periodic save is decided.                                       *)
(* The driver that goes on as soon as the first probe of the batch is back. *)
JoinedFirst == IF tasks = <<>> THEN TRUE ELSE tasks[1].st = "done"

Joined == AllDone(tasks)

(* The save that waits for one check more than the interval. *)
SaveDueLate(checked_count, last, save_interval) == checked_count - last > save_interval

SaveDue(checked_count, last, save_interval) == checked_count - last >= save_interval

ApplyBatch ==
    /\ sys = "snipe" /\ pc = "join"
    /\ Joined
    /\ LET s1 == ProcessResults(state, Flatten(tasks), now)
           s2 == update_progress(s1, current_index(config, gen), s1.checked_count,
                                 s1.error_count, now)
       IN /\ state' = s2
          /\ pc' = IF SaveDue(s2.checked_count, last_save, config.save_interval)
                   THEN "save" ELSE "loop"
    /\ tasks' = <<>>
    /\ UNCHANGED <<sys, config, gen, permits, last_save, disk, now, world, registry, hist, ret>>

(* ScanState::save is std::fs::write: the file is opened with truncation,  *)
(* then the document is written.                                           *)
SaveOpen ==
    /\ sys = "snipe" /\ pc \in {"save", "final"}
    /\ disk' = Torn
    /\ pc' = IF pc = "save" THEN "save_write" ELSE "final_write"
    /\ UNCHANGED <<sys, config, gen, state, tasks, permits, last_save, now, world,
                   registry, hist, ret>>

SaveWrite ==
    /\ sys = "snipe" /\ pc \in {"save_write", "final_write"}
    /\ disk' = state
    /\ last_save' = IF pc = "save_write" THEN state.checked_count ELSE last_save
    /\ pc' = IF pc = "save_write" THEN "loop" ELSE "done"
    /\ hist' = [hist EXCEPT !.saved = Some(state)]
    /\ UNCHANGED <<sys, config, gen, state, tasks, permits, now, world, registry, ret>>

(* save_state()? fails: create_dir_all or the opening of the file fails    *)
(* and the file is as it was, or the writing fails and the file stays cut  *)
(* short; run returns the error.                                           *)
SaveFail ==
    /\ sys = "snipe" /\ pc \in {"save", "save_write", "final", "final_write"}
    /\ pc' = "save_err"
    /\ ret' = Some(ErrIo)
    /\ UNCHANGED <<sys, config, gen, state, tasks, permits, last_save, disk, now, world,
                   registry, hist>>

(* The process is killed: everything in memory is gone, the file stays. *)
ChecksCompleted ==
    state.checked_count + Len(Flatten(tasks))

Kill ==
    /\ sys = "snipe" /\ Running
    /\ hist.kills < MaxKills
    /\ pc' = "killed"
    /\ tasks' = <<>>
    /\ permits' = 0
    /\ gen' = GenNew
    /\ state' = SniperNewState(config, now)
    /\ last_save' = 0
    /\ hist' = [hist EXCEPT !.kills = @ + 1, !.checks = ChecksCompleted,
                            !.mid_save = pc \in {"save_write", "final_write"},
                            !.saved_at_kill = hist.saved]
    /\ UNCHANGED <<sys, config, disk, now, world, registry, ret>>

(* DomainSniper::resume: load the state file, then with_state. *)
Resume ==
    /\ sys = "snipe" /\ pc = "killed"
    /\ LET l == load(disk)
       IN IF l.ok
          THEN /\ state' = l.state
               /\ gen' = set_index(config, l.state.current_index)
               /\ permits' = config.concurrency
               /\ pc' = "loop"
               /\ hist' = [hist EXCEPT !.loaded = Some(l.state)]
               /\ ret' = ret
          ELSE /\ pc' = "resume_err"
               /\ ret' = Some(l.err)
               /\ UNCHANGED <<state, gen, permits, hist>>
    /\ last_save' = 0
    /\ UNCHANGED <<sys, config, tasks, disk, now, world, registry>>

(***************************************************************************)
(* snipe/scanner.rs: recheck_one, the decision for one entry once it holds *)
(* its permit.  A TLD without an RDAP url is decided without a request.    *)
(***************************************************************************)
Decision(kind, entry) == [kind |-> kind, entry |-> entry]

(* The decision that drops the entry whose probe failed. *)
ErrorDrop(target, entry) ==
    Decision(CASE target = "Expiring" -> "ExpiringNoLonger"
               [] target = "Available" -> "AvailableNoLonger"
               [] OTHER -> "ExpiredNoLonger", None)

ErrorKeep(target, entry) ==
    Decision(CASE target = "Expiring" -> "ExpiringErrorKeep"
               [] target = "Available" -> "AvailableErrorKeep"
               [] OTHER -> "ExpiredErrorKeep", Some(entry))

(* The window without its lower end. *)
WithinThresholdNoFloor(days, expiring_days) == days <= expiring_days

WithinThreshold(days, expiring_days) == days > 0 /\ days <= expiring_days

(* The entry as it was, where the probe's data should have replaced it. *)
NotRefreshed(entry, exp, days, t) == entry

Refreshed(entry, exp, days, t) ==
    [entry EXCEPT !.expiration_date = exp, !.days_until_expiry = Some(days), !.found_at = t]

recheck_one(target, entry, expiring_days, t, resp) ==
    IF ~IsSome(rdap_base_url(entry.tld)) THEN ErrorKeep(target, entry)
    ELSE IF resp.code = 0 THEN ErrorKeep(target, entry)
    ELSE IF resp.code = 404
    THEN LET fresh == [entry EXCEPT !.expiration_date = None, !.days_until_expiry = None,
                                    !.found_at = t]
         IN CASE target = "Expiring" -> Decision("ExpiringNowAvailable", Some(fresh))
              [] target = "Available" ->
                     Decision("AvailableStill", Some([entry EXCEPT !.found_at = t]))
              [] OTHER -> Decision("ExpiredNowAvailable", Some(fresh))
    ELSE IF resp.code # 200 THEN ErrorKeep(target, entry)
    ELSE IF ~resp.json THEN ErrorKeep(target, entry)
    ELSE IF ~IsSome(resp.exp) THEN ErrorKeep(target, entry)
    ELSE LET days == NumDays(Unwrap(resp.exp) - t)
             refreshed == Refreshed(entry, resp.exp, days, t)
         IN CASE target = "Expiring" ->
                   IF WithinThreshold(days, expiring_days)
                   THEN Decision("ExpiringStill", Some(refreshed))
                   ELSE IF days <= 0 THEN Decision("ExpiringNowExpired", Some(refreshed))
                   ELSE Decision("ExpiringNoLonger", None)
              [] target = "Available" ->
                   IF days > 0 /\ days <= expiring_days
                   THEN Decision("AvailableNowExpiring", Some(refreshed))
                   ELSE Decision("AvailableNoLonger", None)
              [] OTHER ->
                   IF days <= 0 THEN Decision("ExpiredStill", Some(refreshed))
                   ELSE IF days > 0 /\ days <= expiring_days
                   THEN Decision("ExpiredNowExpiring", Some(refreshed))
                   ELSE Decision("ExpiredNoLonger", None)

(***************************************************************************)
(* snipe/scanner.rs: recheck_expiring_soon.                                *)
(***************************************************************************)
RecheckTasks(target, entries) ==
    [k \in 1..Len(entries) |->
        [target |-> target, entry |-> entries[k], st |-> "wait", decision |-> None]]

ReportKeys ==
    {"checked_expiring", "checked_available", "checked_expired",
     "ExpiringStill", "ExpiringNowAvailable", "ExpiringNoLonger", "ExpiringNowExpired",
     "ExpiringErrorKeep", "AvailableStill", "AvailableNoLonger", "AvailableNowExpiring",
     "AvailableErrorKeep", "ExpiredStill", "ExpiredNowAvailable", "ExpiredNowExpiring",
     "ExpiredNoLonger", "ExpiredErrorKeep", "total_checked"}

ReportDefault == [k \in ReportKeys |-> 0]

(* Every decision counted under the first list. *)
CheckedKeyExpiring(kind) == "checked_expiring"

CheckedKey(kind) ==
    IF kind \in {"ExpiringStill", "ExpiringNowAvailable", "ExpiringNoLonger",
                 "ExpiringNowExpired", "ExpiringErrorKeep"} THEN "checked_expiring"
    ELSE IF kind \in {"AvailableStill", "AvailableNoLonger", "AvailableNowExpiring",
                      "AvailableErrorKeep"} THEN "checked_available"
    ELSE "checked_expired"

BucketOfDecision(kind) ==
    IF kind \in {"ExpiringStill", "ExpiringErrorKeep", "AvailableNowExpiring",
                 "ExpiredNowExpiring"} THEN "expiring_soon"
    ELSE IF kind \in {"ExpiringNowAvailable", "AvailableStill", "AvailableErrorKeep",
                      "ExpiredNowAvailable"} THEN "available"
    ELSE IF kind \in {"ExpiringNowExpired", "ExpiredStill", "ExpiredErrorKeep"}
    THEN "expired"
    ELSE "none"

ApplyDecision(sr, d) ==
    LET b == BucketOfDecision(d.kind)
        st == IF b = "none" THEN sr.state
              ELSE [sr.state EXCEPT ![b] = Append(@, Unwrap(d.entry))]
    IN [state |-> st,
        report |-> [sr.report EXCEPT ![d.kind] = @ + 1, ![CheckedKey(d.kind)] = @ + 1]]

RECURSIVE ApplyDecisions(_, _)
ApplyDecisions(sr, ds) ==
    IF ds = <<>> THEN sr
    ELSE ApplyDecisions(ApplyDecision(sr, Head(ds)), Tail(ds))

(* full_domain is "name.tld"; str::cmp is bytewise, '.' sorts below letters. *)
TldOrder == <<"ai", "app", "co", "com", "dev", "io", "me", "net", "org", "tech", "xx", "xyz">>
Rank(seq, x) == CHOOSE k \in 1..Len(seq) : seq[k] = x

FullDomainKey(e) ==
    [k \in 1..Len(e.domain) |-> Rank(Letters, e.domain[k])] \o <<0, Rank(TldOrder, e.tld)>>

RECURSIVE LexLess(_, _)
LexLess(x, y) ==
    IF y = <<>> THEN FALSE
    ELSE IF x = <<>> THEN TRUE
    ELSE IF Head(x) # Head(y) THEN Head(x) < Head(y)
    ELSE LexLess(Tail(x), Tail(y))

(* The comparison by date alone: no tie-break, no place for a missing date. *)
ExpiringLessByDate(a, b) ==
    /\ IsSome(a.expiration_date) /\ IsSome(b.expiration_date)
    /\ Unwrap(a.expiration_date) < Unwrap(b.expiration_date)

ExpiringLess(a, b) ==
    IF IsSome(a.expiration_date) /\ IsSome(b.expiration_date)
    THEN \/ Unwrap(a.expiration_date) < Unwrap(b.expiration_date)
         \/ /\ Unwrap(a.expiration_date) = Unwrap(b.expiration_date)
            /\ LexLess(FullDomainKey(a), FullDomainKey(b))
    ELSE IF IsSome(a.expiration_date) THEN TRUE
    ELSE IF IsSome(b.expiration_date) THEN FALSE
    ELSE LexLess(FullDomainKey(a), FullDomainKey(b))

(* slice::sort_by is stable: an entry goes behind the entries not greater. *)
RECURSIVE InsertSorted(_, _)
InsertSorted(sorted, e) ==
    IF sorted = <<>> THEN <<e>>
    ELSE IF ExpiringLess(e, Head(sorted)) THEN <<e>> \o sorted
    ELSE <<Head(sorted)>> \o InsertSorted(Tail(sorted), e)

RECURSIVE SortExpiring(_)
SortExpiring(entries) ==
    IF entries = <<>> THEN <<>>
    ELSE InsertSorted(SortExpiring(SubSeq(entries, 1, Len(entries) - 1)),
                      entries[Len(entries)])

Decisions(ts) == [k \in 1..Len(ts) |-> Unwrap(ts[k].decision)]

(* run_snipe_recheck_command loads the state file ... *)
RecheckLoad ==
    /\ sys = "recheck" /\ pc = "rk_load"
    /\ LET l == load(disk)
       IN IF l.ok THEN state' = l.state /\ pc' = "rk_start"
          ELSE pc' = "rk_err" /\ UNCHANGED state
    /\ UNCHANGED <<sys, config, gen, tasks, permits, last_save, disk, now, world, registry,
                   hist, ret>>

(* The gate that is made with the concurrency as it is given. *)
GateSizeRaw(concurrency) == concurrency

(* Semaphore::new(concurrency.max(1)) *)
GateSize(concurrency) == Max(concurrency, 1)

(* ... recheck_expiring_soon takes the three lists and builds the futures, *)
(* or returns the default report when there is nothing to check ...        *)
RecheckStart ==
    /\ sys = "recheck" /\ pc = "rk_start"
    /\ LET ts == RecheckTasks("Expiring", state.expiring_soon)
                 \o RecheckTasks("Available", state.available)
                 \o RecheckTasks("Expired", state.expired)
       IN /\ state' = [state EXCEPT !.expiring_soon = <<>>, !.available = <<>>,
                                    !.expired = <<>>]
          /\ permits' = GateSize(config.concurrency)
          /\ IF Len(ts) = 0
             THEN /\ pc' = "rk_done" /\ tasks' = <<>> /\ ret' = Some(ReportDefault)
             ELSE /\ pc' = "rk_join" /\ tasks' = ts /\ ret' = None
    /\ hist' = [hist EXCEPT !.before = Some(state)]
    /\ UNCHANGED <<sys, config, gen, last_save, disk, now, world, registry>>

RecheckAcquire(i) ==
    /\ sys = "recheck" /\ pc = "rk_join"
    /\ tasks[i].st = "wait"
    /\ permits > 0
    /\ tasks' = [tasks EXCEPT ![i].st = "inflight"]
    /\ permits' = permits - 1
    /\ UNCHANGED <<sys, config, gen, state, pc, last_save, disk, now, world, registry,
                   hist, ret>>

RecheckRespond(i) ==
    /\ sys = "recheck" /\ pc = "rk_join"
    /\ tasks[i].st = "inflight"
    /\ LET e == tasks[i].entry
           fq == Fqdn(e.domain, e.tld)
       IN IF IsSome(rdap_base_url(e.tld))
          THEN \E resp \in Answers(fq) :
                  /\ tasks' = [tasks EXCEPT ![i].st = "done",
                                 ![i].decision = Some(recheck_one(tasks[i].target, e,
                                                     config.expiring_days, now, resp))]
                  /\ registry' = Remember(fq, resp)
          ELSE /\ tasks' = [tasks EXCEPT ![i].st = "done",
                                 ![i].decision = Some(recheck_one(tasks[i].target, e,
                                                     config.expiring_days, now, NotFound))]
               /\ UNCHANGED registry
    /\ permits' = permits + 1
    /\ UNCHANGED <<sys, config, gen, state, pc, last_save, disk, now, world, hist, ret>>

(* ... join_all has returned: the decisions are applied in task order, the *)
(* update time is recorded and expiring_soon is sorted ...                 *)
RecheckApply ==
    /\ sys = "recheck" /\ pc = "rk_join"
    /\ AllDone(tasks)
    /\ LET sr == ApplyDecisions([state |-> state,
                                 report |-> [ReportDefault EXCEPT !.total_checked = Len(tasks)]],
                                Decisions(tasks))
       IN /\ state' = [sr.state EXCEPT !.updated_at = now,
                                       !.update_times = Append(@, now),
                                       !.expiring_soon = SortExpiring(@)]
          /\ ret' = Some(sr.report)
    /\ tasks' = <<>>
    /\ pc' = "rk_done"
    /\ UNCHANGED <<sys, config, gen, permits, last_save, disk, now, world, registry, hist>>

(* ... and the command saves the state back to the file it was read from.  *)
RecheckSaveOpen ==
    /\ sys = "recheck" /\ pc = "rk_done"
    /\ disk' = Torn
    /\ pc' = "rk_save"
    /\ UNCHANGED <<sys, config, gen, state, tasks, permits, last_save, now, world,
                   registry, hist, ret>>

RecheckSaveWrite ==
    /\ sys = "recheck" /\ pc = "rk_save"
    /\ disk' = state
    /\ pc' = "rk_saved"
    /\ hist' = [hist EXCEPT !.rechecks = @ + 1]
    /\ UNCHANGED <<sys, config, gen, state, tasks, permits, last_save, now, world,
                   registry, ret>>

(* The command is run once more on the file it has written. *)
RecheckAgain ==
    /\ sys = "recheck" /\ pc = "rk_saved"
    /\ hist.rechecks < MaxRechecks
    /\ pc' = "rk_load"
    /\ UNCHANGED <<sys, config, gen, state, tasks, permits, last_save, disk, now, world,
                   registry, hist, ret>>

(***************************************************************************)
(* domain/checker.rs: DomainChecker::check_domains.  Every check_domain    *)
(* future takes a permit first and keeps it until it returns.              *)
(***************************************************************************)
(* DomainValidator::validate, as far as the names used here go: an empty   *)
(* label makes the domain start with a dot.                                *)
validate(fq) == Len(fq[1]) > 0

(* str::to_lowercase, on the words used here. *)
to_lowercase(word) ==
    CASE word = "No" -> "no"
      [] word = "MATCH" -> "match"
      [] word = "Status:" -> "status:"
      [] word = "Available" -> "available"
      [] OTHER -> word

(* error.rs: the errors the two clients return.  A message is the list of *)
(* its words.                                                             *)
ErrDomainCheck(message) == [variant |-> "DomainCheck", message |-> message]
ErrNetwork(status_code) == [variant |-> "Network", status_code |-> status_code]
ErrTimeout == [variant |-> "Timeout"]
ErrParse == [variant |-> "Parse"]

(* message.to_lowercase() contains "not found", "no match", "available"   *)
(* or "404".                                                              *)
Mentions(message) ==
    LET msg == [k \in 1..Len(message) |-> to_lowercase(message[k])]
    IN \/ \E k \in 1..Len(msg) : msg[k] \in {"available", "404"}
       \/ \E k \in 1..(Len(msg) - 1) :
             \/ msg[k] = "not" /\ msg[k + 1] = "found"
             \/ msg[k] = "no" /\ msg[k + 1] = "match"

(* An error that never speaks for availability. *)
suggests_nothing(e) == FALSE

suggests_available(e) ==
    CASE e.variant = "DomainCheck" -> Mentions(e.message)
      [] e.variant = "Network" -> e.status_code = Some(404)
      [] OTHER -> FALSE

CheckOk(status) == [ok |-> TRUE, status |-> status]
CheckErr(err) == [ok |-> FALSE, err |-> err]

(* RdapClient::check_domain: the result for a response; a TLD without an  *)
(* RDAP url fails before any request is made.                             *)
RdapCheck(fq, resp) ==
    IF ~IsSome(rdap_base_url(fq[2]))
    THEN CheckErr(ErrDomainCheck(<<"no", "rdap", "server", "found", "for", "tld:", fq[2]>>))
    ELSE IF resp.code = 0 THEN CheckErr(ErrNetwork(None))
    ELSE IF resp.code = 404 THEN CheckOk("Available")
    ELSE IF resp.code < 200 \/ resp.code > 299 THEN CheckErr(ErrNetwork(Some(resp.code)))
    ELSE IF ~resp.json THEN CheckErr(ErrParse)
    ELSE CheckOk("Taken")

(* WhoisClient: the servers known by convention; any other TLD is looked  *)
(* up at whois.iana.org first.                                            *)
whois_server_for_tld(tld) ==
    IF tld \in {"com", "net", "org", "io", "ai", "co", "me", "xyz"} THEN Some(tld) ELSE None

(* What the WHOIS exchange ends in: a failed query, no server named by    *)
(* IANA, or a text that holds an availability marker, a taken marker,     *)
(* both or neither.                                                       *)
WhoisOutcomes(tld) ==
    {[kind |-> "query_error"]}
    \cup (IF IsSome(whois_server_for_tld(tld)) THEN {} ELSE {[kind |-> "no_server"]})
    \cup {[kind |-> "text", is_available |-> a, is_taken |-> t] : a \in BOOLEAN, t \in BOOLEAN}

(* The reading that lets an availability marker win over a taken marker. *)
parse_available_first(w) ==
    IF w.is_available THEN "Available"
    ELSE IF w.is_taken THEN "Taken"
    ELSE "Unknown"

parse_whois_response(w) ==
    IF w.is_available /\ ~w.is_taken THEN "Available"
    ELSE IF w.is_taken THEN "Taken"
    ELSE "Unknown"

(* A WHOIS text is the list of its words; the patterns are looked for on   *)
(* word boundaries.                                                        *)
available_patterns ==
    << <<"no", "match">>, <<"not", "found">>, <<"no", "entries", "found">>,
       <<"domain", "not", "found">>, <<"domain", "available">>,
       <<"not", "registered">>, <<"available", "for", "registration">> >>

taken_patterns ==
    << <<"registrar:">>, <<"creation", "date:">>, <<"created:">>, <<"registered:">>,
       <<"name", "server:">>, <<"nameserver:">>, <<"domain", "status:">>, <<"status:">> >>

(* str::contains. *)
contains(text, pattern) ==
    \E k \in 0..(Len(text) - Len(pattern)) :
        \A j \in 1..Len(pattern) : text[k + j] = pattern[j]

(* The two flags parse_whois_response computes from the text. *)
WhoisText(output) ==
    LET output_lower == [k \in 1..Len(output) |-> to_lowercase(output[k])]
    IN [kind |-> "text",
        is_available |-> \E p \in 1..Len(available_patterns) :
                            contains(output_lower, available_patterns[p]),
        is_taken |-> \E p \in 1..Len(taken_patterns) :
                        contains(output_lower, taken_patterns[p])]

(* WhoisClient::check_domain. *)
WhoisCheck(fq, w) ==
    CASE w.kind = "query_error" -> CheckErr(ErrTimeout)
      [] w.kind = "no_server" ->
            CheckErr(ErrDomainCheck(<<"no", "whois", "server", "found", "for", "tld:", fq[2]>>))
      [] OTHER -> CheckOk(parse_whois_response(w))

DomainResult(fq, status, method) ==
    [ok |-> TRUE, domain |-> fq, status |-> status, method |-> method,
     error_message |-> None]

(* The failure handed back as an error. *)
AllMethodsFailedErr(fq) == [ok |-> FALSE, domain |-> fq]

AllMethodsFailed(fq) ==
    [ok |-> TRUE, domain |-> fq, status |-> "Unknown", method |-> "Unknown",
     error_message |-> Some("All checking methods failed")]

(* types.rs: PerformanceMetrics, the three counters check_domain moves. *)
MetricsNew == [domains_checked |-> 0, errors_encountered |-> 0, total_check_time_ms |-> 0]
increment_domains_checked(m) == [m EXCEPT !.domains_checked = @ + 1]
increment_errors(m) == [m EXCEPT !.errors_encountered = @ + 1]
add_check_time(m, milliseconds) == [m EXCEPT !.total_check_time_ms = @ + milliseconds]

(* The check that ends with the answer of a client is counted and timed. *)
Completed(m, duration) == add_check_time(increment_domains_checked(m), duration)

(* A check_domain future: where it stands, what each client returned to   *)
(* it, its result, and start_time.elapsed() in milliseconds at its end.   *)
CheckerTasks(domains) ==
    [k \in 1..Len(domains) |->
        [domain |-> domains[k], st |-> "wait", rdap |-> None, whois |-> None,
         result |-> None, duration |-> None]]

Requests(ts) == Cardinality({i \in 1..Len(ts) : ts[i].st \in {"inflight", "rdap", "whois"}})

(* The gate is passed and the name validated; without any client the      *)
(* future ends at once.                                                   *)
CheckerAcquire(i) ==
    /\ sys = "checker" /\ pc = "ck_join"
    /\ tasks[i].st = "wait"
    /\ permits > 0
    /\ LET d == tasks[i].domain
       IN IF ~validate(d)
          THEN /\ tasks' = [tasks EXCEPT ![i].st = "done",
                                         ![i].result = Some([ok |-> FALSE, domain |-> d])]
               /\ UNCHANGED <<permits, state>>
          ELSE IF config.enable_rdap
          THEN /\ tasks' = [tasks EXCEPT ![i].st = "rdap"]
               /\ permits' = permits - 1
               /\ UNCHANGED state
          ELSE IF config.enable_whois
          THEN /\ tasks' = [tasks EXCEPT ![i].st = "whois"]
               /\ permits' = permits - 1
               /\ UNCHANGED state
          ELSE /\ \E duration \in world.elapsed :
                     tasks' = [tasks EXCEPT ![i].st = "done",
                                            ![i].result = Some(AllMethodsFailed(d)),
                                            ![i].duration = Some(duration)]
               /\ state' = increment_errors(state)
               /\ UNCHANGED permits
    /\ UNCHANGED <<sys, config, gen, pc, last_save, disk, now, world, registry, hist, ret>>

(* The RDAP client has returned r to future i, duration milliseconds      *)
(* after start_time.                                                      *)
AfterRdap(i, r, duration) ==
    LET d == tasks[i].domain
        seen == [tasks EXCEPT ![i].rdap = Some(r)]
        ended == [seen EXCEPT ![i].st = "done", ![i].duration = Some(duration)]
    IN IF r.ok
       THEN /\ tasks' = [ended EXCEPT ![i].result = Some(DomainResult(d, r.status, "Rdap"))]
            /\ permits' = permits + 1
            /\ state' = Completed(state, duration)
       ELSE IF suggests_available(r.err)
       THEN /\ tasks' = [ended EXCEPT ![i].result = Some(DomainResult(d, "Available", "Rdap"))]
            /\ permits' = permits + 1
            /\ state' = Completed(state, duration)
       ELSE IF config.enable_whois
       THEN /\ tasks' = [seen EXCEPT ![i].st = "whois"]
            /\ UNCHANGED <<permits, state>>
       ELSE /\ tasks' = [ended EXCEPT ![i].result = Some(AllMethodsFailed(d))]
            /\ permits' = permits + 1
            /\ state' = increment_errors(state)

CheckerRdapRespond(i) ==
    /\ sys = "checker" /\ pc = "ck_join"
    /\ tasks[i].st = "rdap"
    /\ LET d == tasks[i].domain
       IN IF IsSome(rdap_base_url(d[2]))
          THEN \E resp \in Answers(d), duration \in world.elapsed :
                  /\ registry' = Remember(d, resp)
                  /\ AfterRdap(i, RdapCheck(d, resp), duration)
          ELSE \E duration \in world.elapsed :
                  /\ UNCHANGED registry
                  /\ AfterRdap(i, RdapCheck(d, NotFound), duration)
    /\ UNCHANGED <<sys, config, gen, pc, last_save, disk, now, world, hist, ret>>

CheckerWhoisRespond(i) ==
    /\ sys = "checker" /\ pc = "ck_join"
    /\ tasks[i].st = "whois"
    /\ \E w \in WhoisOutcomes(tasks[i].domain[2]), duration \in world.elapsed :
          LET d == tasks[i].domain
              r == WhoisCheck(d, w)
              seen == [tasks EXCEPT ![i].whois = Some(r)]
          IN /\ tasks' = [seen EXCEPT ![i].st = "done",
                            ![i].duration = Some(duration),
                            ![i].result =
                               Some(IF r.ok THEN DomainResult(d, r.status, "Whois")
                                    ELSE IF suggests_available(r.err)
                                    THEN DomainResult(d, "Available", "Whois")
                                    ELSE AllMethodsFailed(d))]
             /\ state' = IF r.ok \/ suggests_available(r.err)
                         THEN Completed(state, duration)
                         ELSE increment_errors(state)
    /\ permits' = permits + 1
    /\ UNCHANGED <<sys, config, gen, pc, last_save, disk, now, world, registry, hist, ret>>

(* join_all has returned: check_domains keeps the Ok results, in order. *)
CheckerJoin ==
    /\ sys = "checker" /\ pc = "ck_join"
    /\ AllDone(tasks)
    /\ ret' = Some(SelectSeq([k \in 1..Len(tasks) |-> Unwrap(tasks[k].result)],
                             LAMBDA r : r.ok))
    /\ pc' = "ck_done"
    /\ tasks' = <<>>
    /\ UNCHANGED <<sys, config, gen, state, permits, last_save, disk, now, world,
                   registry, hist>>

(***************************************************************************)
(* The behaviours checked.  A scan: DomainSniper::new(config) for the      *)
(* configurations below.  A recheck: the command run on a state file with  *)
(* at most MaxEntries entries.  A check: check_domains on at most          *)
(* MaxDomains domains.                                                     *)
(***************************************************************************)
ExpiringDays == 7

TldLists == {<<>>, <<"com">>, <<"com", "xx">>}

SnipeBodies == {NotFound, ServerError, ExpiresAt(48), ExpiresAt(-48), ExpiresAt(9600)}

SnipeConfigs(modes) ==
    [mode : modes, charset : {"Letters"}, length : 1..MaxLength, tlds : TldLists,
     concurrency : 1..MaxConcurrency, batch_size : 1..MaxBatchSize,
     expiring_days : {ExpiringDays}, save_interval : 1..MaxSaveInterval]

HistNew ==
    [kills |-> 0, checks |-> 0, mid_save |-> FALSE, saved |-> None,
     saved_at_kill |-> None, loaded |-> None, rechecks |-> 0, before |-> None]

InitSnipe(cfg, w) ==
    /\ sys = "snipe"
    /\ config = cfg
    /\ gen = GenNew
    /\ now = 0
    /\ state = SniperNewState(cfg, 0)
    /\ pc = "loop"
    /\ tasks = <<>>
    /\ permits = cfg.concurrency
    /\ last_save = 0
    /\ disk = Absent
    /\ world = w
    /\ registry = <<>>
    /\ hist = HistNew
    /\ ret = None

(* State files of a finished one-letter scan, found a day ago.  The entry  *)
(* under "xx" stands for a file written when that TLD had an endpoint.     *)
FoundAt == 0 - ScanAge

EntryPool == <<Fqdn(<<"a">>, "com"), Fqdn(<<"b">>, "com"), Fqdn(<<"a">>, "xx")>>

BucketNames == {"available", "expiring_soon", "expired"}

PoolEntry(fq, bucket) ==
    LET exp == CASE bucket = "available" -> None
                 [] bucket = "expiring_soon" -> Some(72)
                 [] OTHER -> Some(-48)
    IN [domain |-> fq[1], tld |-> fq[2], expiration_date |-> exp,
        days_until_expiry |-> IF IsSome(exp) THEN Some(NumDays(Unwrap(exp) - FoundAt))
                              ELSE None,
        found_at |-> FoundAt]

PoolBucket(assign, bucket) ==
    LET picked == SelectSeq(EntryPool, LAMBDA fq : assign[fq] = bucket)
    IN [k \in 1..Len(picked) |-> PoolEntry(picked[k], bucket)]

Range(seq) == {seq[k] : k \in 1..Len(seq)}

StateFiles ==
    {[ScanStateNew(1, <<"com">>, 2, FoundAt) EXCEPT
          !.current_index = 2, !.checked_count = 2, !.completed = TRUE,
          !.available = PoolBucket(assign, "available"),
          !.expiring_soon = PoolBucket(assign, "expiring_soon"),
          !.expired = PoolBucket(assign, "expired")] :
       assign \in {f \in [Range(EntryPool) -> BucketNames \cup {"none"}] :
                      Cardinality({fq \in Range(EntryPool) : f[fq] # "none"}) <= MaxEntries}}

RecheckBodies ==
    {NotFound, ServerError, TransportError, BadBody, NoExpiration,
     ExpiresAt(48), ExpiresAt(-48), ExpiresAt(9600)}

InitRecheck(cfg, file, w) ==
    /\ sys = "recheck"
    /\ config = cfg
    /\ gen = GenNew
    /\ now = 0
    /\ state = file
    /\ pc = "rk_load"
    /\ tasks = <<>>
    /\ permits = 0
    /\ last_save = 0
    /\ disk = file
    /\ world = w
    /\ registry = <<>>
    /\ hist = HistNew
    /\ ret = None

(* A name under a TLD with an RDAP endpoint, names under two TLDs without  *)
(* one, the second of which reads like an availability marker, and a name *)
(* the validator rejects.                                                 *)
CheckerDomains ==
    {Fqdn(<<"a">>, "com"), Fqdn(<<"a">>, "xx"), Fqdn(<<"a">>, "available"),
     Fqdn(<<>>, "com")}

CheckerBodies == {NotFound, ServerError, TransportError, BadBody, ExpiresAt(9600)}

DomainLists == UNION {[1..n -> CheckerDomains] : n \in 0..MaxDomains}

InitChecker(cfg, domains, w) ==
    /\ sys = "checker"
    /\ config = cfg
    /\ gen = GenNew
    /\ now = 0
    /\ state = MetricsNew
    /\ pc = "ck_join"
    /\ tasks = CheckerTasks(domains)
    /\ permits = cfg.concurrent_checks
    /\ last_save = 0
    /\ disk = Absent
    /\ world = w
    /\ registry = <<>>
    /\ hist = HistNew
    /\ ret = None

Init ==
    \E cfg \in SnipeConfigs({"Full"}) :
        InitSnipe(cfg, [bodies |-> SnipeBodies, static |-> TRUE])

InitRechecks ==
    \E cfg \in [expiring_days : {ExpiringDays}, concurrency : 0..MaxConcurrency],
       file \in StateFiles :
        InitRecheck(cfg, file, [bodies |-> RecheckBodies, static |-> TRUE])

InitCheckers ==
    \E cfg \in [concurrent_checks : 1..MaxConcurrency, enable_rdap : BOOLEAN,
                 enable_whois : BOOLEAN],
       domains \in DomainLists :
        InitChecker(cfg, domains,
                    [bodies |-> CheckerBodies, static |-> FALSE, elapsed |-> {1}])

(* Checks by a clock that measures one or two milliseconds, against a     *)
(* registry that answers 404 or 500.                                      *)
InitMetrics ==
    \E cfg \in [concurrent_checks : 1..MaxConcurrency, enable_rdap : BOOLEAN,
                 enable_whois : BOOLEAN],
       domains \in DomainLists :
        InitChecker(cfg, domains,
                    [bodies |-> {NotFound, ServerError}, static |-> FALSE, elapsed |-> {1, 2}])

(* Scans that are not interrupted: every configuration against a registry *)
(* that answers 404 or 500, and the one-letter scans against SnipeBodies. *)
InitScan ==
    \/ \E cfg \in SnipeConfigs({"Full"}) :
          InitSnipe(cfg, [bodies |-> {NotFound, ServerError}, static |-> TRUE])
    \/ \E cfg \in SnipeConfigs({"Full"}) :
          /\ cfg.length = 1
          /\ InitSnipe(cfg, [bodies |-> SnipeBodies, static |-> TRUE])

(* The three gates: a scan, a recheck, a check. *)
InitGate == InitScan \/ InitRechecks \/ InitCheckers

NextScan ==
    \/ LoopExit
    \/ NextBatch
    \/ \E i \in 1..Len(tasks) : Acquire(i)
    \/ \E i \in 1..Len(tasks) : Respond(i)
    \/ ApplyBatch
    \/ SaveOpen
    \/ SaveWrite
    \/ SaveFail

NextSnipe ==
    \/ NextScan
    \/ Kill
    \/ Resume

NextRecheck ==
    \/ RecheckLoad
    \/ RecheckStart
    \/ \E i \in 1..Len(tasks) : RecheckAcquire(i)
    \/ \E i \in 1..Len(tasks) : RecheckRespond(i)
    \/ RecheckApply
    \/ RecheckSaveOpen
    \/ RecheckSaveWrite
    \/ RecheckAgain

NextChecker ==
    \/ \E i \in 1..Len(tasks) : CheckerAcquire(i)
    \/ \E i \in 1..Len(tasks) : CheckerRdapRespond(i)
    \/ \E i \in 1..Len(tasks) : CheckerWhoisRespond(i)
    \/ CheckerJoin

Next == NextSnipe

NextGate == NextScan \/ NextRecheck \/ NextChecker

Spec == Init /\ [][Next]_vars

SpecRecheck == InitRechecks /\ [][NextRecheck]_vars

SpecScan == InitScan /\ [][NextScan]_vars

SpecGate == InitGate /\ [][NextGate]_vars

SpecChecker == InitCheckers /\ [][NextChecker]_vars

SpecMetrics == InitMetrics /\ [][NextChecker]_vars

(***************************************************************************)
(* A one-letter scan against a registry whose expiration instants lie at   *)
(* every half day from a day and a half ago to a day and a half past the   *)
(* largest threshold.                                                      *)
(***************************************************************************)
ClassifyHours == {12 * k - 36 : k \in 0..(2 * MaxDays + 6)}

ClassifyBodies == {NotFound} \cup {ExpiresAt(h) : h \in ClassifyHours}

InitClassify ==
    \E cfg \in [mode : {"Full"}, charset : {"Letters"}, length : {1}, tlds : {<<"com">>},
                concurrency : {1}, batch_size : {2}, expiring_days : 1..MaxDays,
                save_interval : {1}] :
        InitSnipe(cfg, [bodies |-> ClassifyBodies, static |-> TRUE])

SpecClassify == InitClassify /\ [][NextSnipe]_vars

(***************************************************************************)
(* A Pronounceable scan against a registry that may answer a name          *)
(* differently each time it is asked.                                      *)
(***************************************************************************)
InitPron ==
    \E cfg \in [mode : {"Pronounceable"}, charset : {"Letters"}, length : {4},
                tlds : {<<"com">>},
                concurrency : {1}, batch_size : {MaxBatchSize},
                expiring_days : {ExpiringDays}, save_interval : {MaxSaveInterval}] :
        InitSnipe(cfg, [bodies |-> {NotFound, ExpiresAt(48)}, static |-> FALSE])

SpecPron == InitPron /\ [][NextSnipe]_vars

(***************************************************************************)
(* DomainSniper::resume in a fresh process, on a state file that is        *)
(* missing, cut short, not JSON, or the file of a scan stopped at some     *)
(* index; the scan then goes on.                                           *)
(***************************************************************************)
ResumeFiles(cfg) ==
    {Absent, Torn, Garbage}
    \cup {[ScanStateNew(cfg.length, cfg.tlds, GenTotal(cfg) * Len(cfg.tlds), FoundAt) EXCEPT
              !.current_index = k, !.checked_count = k * Len(cfg.tlds)] :
            k \in 0..GenTotal(cfg)}

InitResume ==
    \E cfg \in SnipeConfigs({"Full"}) :
        \E file \in ResumeFiles(cfg) :
            /\ sys = "snipe"
            /\ config = cfg
            /\ gen = GenNew
            /\ now = 0
            /\ state = SniperNewState(cfg, 0)
            /\ pc = "killed"
            /\ tasks = <<>>
            /\ permits = 0
            /\ last_save = 0
            /\ disk = file
            /\ world = [bodies |-> {NotFound, ServerError}, static |-> TRUE]
            /\ registry = <<>>
            /\ hist = HistNew
            /\ ret = None

NextResume == NextScan \/ Resume

SpecResume == InitResume /\ [][NextResume]_vars

(***************************************************************************)
(* Scans of every batch size from 0, against a registry that answers 404   *)
(* or 500.                                                                 *)
(***************************************************************************)
InitCompletion ==
    \E cfg \in [mode : {"Full"}, charset : {"Letters"}, length : 1..MaxLength,
                 tlds : TldLists, concurrency : 1..MaxConcurrency,
                 batch_size : 0..MaxBatchSize, expiring_days : {ExpiringDays},
                 save_interval : 1..MaxSaveInterval] :
        InitSnipe(cfg, [bodies |-> {NotFound, ServerError}, static |-> TRUE])

SpecCompletion == InitCompletion /\ [][NextScan]_vars

(***************************************************************************)
(* A function applied to an input: the input is held in config and the     *)
(* value returned in ret.                                                  *)
(***************************************************************************)
InitCall(name, input) ==
    /\ sys = name
    /\ config = input
    /\ gen = GenNew
    /\ now = 0
    /\ state = <<>>
    /\ pc = "call"
    /\ tasks = <<>>
    /\ permits = 0
    /\ last_save = 0
    /\ disk = Absent
    /\ world = [bodies |-> {}, static |-> TRUE]
    /\ registry = <<>>
    /\ hist = HistNew
    /\ ret = None

Return(value) ==
    /\ pc = "call"
    /\ pc' = "returned"
    /\ ret' = Some(value)
    /\ UNCHANGED <<sys, config, gen, state, tasks, permits, last_save, disk, now, world,
                   registry, hist>>

(***************************************************************************)
(* WhoisClient::parse_whois_response on the texts of at most MaxWords      *)
(* words.                                                                  *)
(***************************************************************************)
WhoisWords ==
    {"No", "MATCH", "not", "found", "domain", "Status:", "registrar:", "Available", "ok"}

WhoisTexts == UNION {[1..n -> WhoisWords] : n \in 0..MaxWords}

InitWhois == \E output \in WhoisTexts : InitCall("parse_whois_response", output)

ParseWhois ==
    /\ sys = "parse_whois_response"
    /\ Return(parse_whois_response(WhoisText(config)))

SpecWhois == InitWhois /\ [][ParseWhois]_vars

(***************************************************************************)
(* DomainForgeError::suggests_available on the errors of every variant.    *)
(* The message of an error is its message field (the operation of a        *)
(* Timeout); only a Network error has a status code.                       *)
(***************************************************************************)
ErrorVariants ==
    {"Config", "LlmProvider", "DomainCheck", "Network", "Authentication", "RateLimit",
     "Timeout", "Parse", "Validation", "Io", "Internal", "Cli"}

ErrorWords == {"No", "MATCH", "not", "found", "Available", "404", "failed"}

ErrorMessages == UNION {[1..n -> ErrorWords] : n \in 0..MaxMessage}

StatusCodes == {None, Some(404), Some(500)}

Errors ==
    {[variant |-> v, message |-> m, status_code |-> s] :
        v \in ErrorVariants, m \in ErrorMessages, s \in StatusCodes}

InitSuggests ==
    \E e \in Errors :
        /\ e.variant # "Network" => e.status_code = None
        /\ InitCall("suggests_available", e)

Suggests ==
    /\ sys = "suggests_available"
    /\ Return(suggests_available(config))

SpecSuggests == InitSuggests /\ [][Suggests]_vars

(***************************************************************************)
(* An enumerator on its own: a generator of any of the four modes, and at  *)
(* most MaxCalls calls of set_index(index) and next_batch(count) on it.    *)
(* tasks is the record of the calls: what was called with which argument,  *)
(* the batch returned, and current_index() and is_exhausted() before and   *)
(* after.                                                                  *)
(***************************************************************************)
Enumerators ==
    [mode : {"Full"}, charset : {"Letters", "Alphanumeric"}, length : 0..MaxLength]
    \cup {[mode |-> m, charset |-> "Letters", length |-> 0] :
             m \in {"Pronounceable", "Words", "Six"}}

InitEnum ==
    \E e \in Enumerators :
        \E index \in 0..(GenTotal(e) + MaxBeyond) :
            /\ InitCall("enumerator", [e EXCEPT !.length = effective_length(e)]
                                          @@ [index |-> index])
            /\ gen = GenNew

BatchCounts ==
    {0, 1, config.index, GenTotal(config)}
    \cup (IF config.index <= GenTotal(config) THEN {GenTotal(config) - config.index} ELSE {})

Called(op, arg, g, batch) ==
    [op |-> op, arg |-> arg, batch |-> batch,
     from |-> current_index(config, gen), index |-> current_index(config, g),
     exhausted |-> is_exhausted(config, g), before |-> gen, after |-> g]

EnumSetIndex ==
    /\ sys = "enumerator" /\ Len(tasks) < MaxCalls
    /\ gen' = set_index(config, config.index)
    /\ tasks' = Append(tasks, Called("set_index", config.index, gen', <<>>))
    /\ UNCHANGED <<sys, config, state, pc, permits, last_save, disk, now, world, registry,
                   hist, ret>>

EnumNextBatch ==
    /\ sys = "enumerator" /\ Len(tasks) < MaxCalls
    /\ \E count \in BatchCounts :
          LET nb == next_batch(config, gen, count)
          IN /\ gen' = nb.gen
             /\ tasks' = Append(tasks, Called("next_batch", count, nb.gen, nb.batch))
    /\ UNCHANGED <<sys, config, state, pc, permits, last_save, disk, now, world, registry,
                   hist, ret>>

NextEnum == EnumSetIndex \/ EnumNextBatch

SpecEnum == InitEnum /\ [][NextEnum]_vars

(***************************************************************************)
(* llm/generator.rs: DomainGenerator::generate_with_fallback on a          *)
(* generator whose providers were added before the call.  config is the    *)
(* generator (the keys of providers, and default_provider), state holds    *)
(* the metrics and the locals last_error and available_providers, and      *)
(* tasks is the record of the calls of generate_with_provider.  A HashMap  *)
(* yields its keys in any order, and a provider succeeds or fails.         *)
(***************************************************************************)
ProviderNames == {"openai", "anthropic", "gemini", "ollama"}

LlmMetricsNew == [api_calls_made |-> 0, domains_generated |-> 0, errors_encountered |-> 0]

ErrProvider(provider_name) == [variant |-> "Llm", provider |-> provider_name]
ErrConfig == [variant |-> "Config", message |-> "No providers configured"]

has_provider(g, provider) == provider \in g.providers

(* DomainGenerator::new, then add_provider for every name of providers and *)
(* set_default_provider(default), which keeps "openai" when default has    *)
(* not been added.                                                         *)
InitFallback ==
    \E providers \in SUBSET ProviderNames, default \in ProviderNames :
        /\ sys = "generate_with_fallback"
        /\ config = [providers |-> providers,
                     default_provider |-> IF default \in providers THEN default
                                          ELSE "openai"]
        /\ state = [metrics |-> LlmMetricsNew, last_error |-> None,
                    available_providers |-> <<>>]
        /\ pc = "default"
        /\ tasks = <<>>
        /\ gen = GenNew
        /\ now = 0
        /\ permits = 0
        /\ last_save = 0
        /\ disk = Absent
        /\ world = [bodies |-> {}, static |-> TRUE]
        /\ registry = <<>>
        /\ hist = HistNew
        /\ ret = None

(* generate_with_provider: the counters it moves for a call that succeeds  *)
(* or fails.                                                               *)
generate_with_provider(m, ok) ==
    IF ok THEN [m EXCEPT !.api_calls_made = @ + 1, !.domains_generated = @ + 1]
    ELSE [m EXCEPT !.api_calls_made = @ + 1, !.errors_encountered = @ + 1]

(* The fallback list that keeps the default provider. *)
EveryProvider(g) == g.providers

(* providers.keys().filter(|name| name != default_provider) *)
OtherProviders(g) == g.providers \ {g.default_provider}

(* The orders in which the keys of the map may come. *)
KeyOrders(keys) ==
    {order \in [1..Cardinality(keys) -> keys] :
        \A i, j \in 1..Cardinality(keys) : i # j => order[i] # order[j]}

(* The default provider is configured and is tried first. *)
TryDefault ==
    /\ sys = "generate_with_fallback" /\ pc = "default"
    /\ has_provider(config, config.default_provider)
    /\ \E ok \in BOOLEAN :
          /\ tasks' = Append(tasks, [provider |-> config.default_provider, ok |-> ok])
          /\ IF ok
             THEN /\ state' = [state EXCEPT !.metrics = generate_with_provider(@, TRUE)]
                  /\ pc' = "returned"
                  /\ ret' = Some([ok |-> TRUE, provider |-> config.default_provider])
             ELSE /\ \E order \in KeyOrders(OtherProviders(config)) :
                        state' = [state EXCEPT
                                     !.metrics = generate_with_provider(@, FALSE),
                                     !.last_error = Some(ErrProvider(config.default_provider)),
                                     !.available_providers = order]
                  /\ pc' = "others"
                  /\ ret' = ret
    /\ UNCHANGED <<sys, config, gen, permits, last_save, disk, now, world, registry, hist>>

(* The default provider is not configured: the others are collected. *)
SkipDefault ==
    /\ sys = "generate_with_fallback" /\ pc = "default"
    /\ ~has_provider(config, config.default_provider)
    /\ \E order \in KeyOrders(OtherProviders(config)) :
          state' = [state EXCEPT !.available_providers = order]
    /\ pc' = "others"
    /\ UNCHANGED <<sys, config, gen, tasks, permits, last_save, disk, now, world, registry,
                   hist, ret>>

(* One turn of the loop over available_providers. *)
TryOther ==
    /\ sys = "generate_with_fallback" /\ pc = "others"
    /\ state.available_providers # <<>>
    /\ LET provider_name == Head(state.available_providers)
       IN \E ok \in BOOLEAN :
             /\ tasks' = Append(tasks, [provider |-> provider_name, ok |-> ok])
             /\ IF ok
                THEN /\ state' = [state EXCEPT
                                     !.metrics = generate_with_provider(@, TRUE),
                                     !.available_providers = Tail(@)]
                     /\ pc' = "returned"
                     /\ ret' = Some([ok |-> TRUE, provider |-> provider_name])
                ELSE /\ state' = [state EXCEPT
                                     !.metrics = generate_with_provider(@, FALSE),
                                     !.last_error = Some(ErrProvider(provider_name)),
                                     !.available_providers = Tail(@)]
                     /\ pc' = pc
                     /\ ret' = ret
    /\ UNCHANGED <<sys, config, gen, permits, last_save, disk, now, world, registry, hist>>

(* The loop is over: increment_errors and Err(last_error or Config). *)
FallbackFail ==
    /\ sys = "generate_with_fallback" /\ pc = "others"
    /\ state.available_providers = <<>>
    /\ state' = [state EXCEPT !.metrics.errors_encountered = @ + 1]
    /\ pc' = "returned"
    /\ ret' = Some([ok |-> FALSE,
                    err |-> IF IsSome(state.last_error) THEN Unwrap(state.last_error)
                            ELSE ErrConfig])
    /\ UNCHANGED <<sys, config, gen, tasks, permits, last_save, disk, now, world, registry,
                   hist>>

NextFallback == TryDefault \/ SkipDefault \/ TryOther \/ FallbackFail

SpecFallback == InitFallback /\ [][NextFallback]_vars

(***************************************************************************)
(* main.rs: the snipe command line.  parse_snipe_args folds the arguments  *)
(* into a SnipeConfig from left to right; run_snipe_command resumes when   *)
(* state_file is set and the file exists, else starts a new scan; the      *)
(* engine saves to state_file, or to default_path(state.length).           *)
(***************************************************************************)
DefaultLength == 4

SnipeConfigDefault ==
    [mode |-> "Full", length |-> DefaultLength, charset |-> "Letters", state_file |-> None]

(* ScanState::default_path: output/snipe_{length}letter.json *)
default_path(length) == <<"output/snipe_", length, "letter.json">>

ParseArg(cfg, arg) ==
    CASE arg = "--resume" -> [cfg EXCEPT !.state_file = Some(default_path(cfg.length))]
      [] arg = "--alphanumeric" -> [cfg EXCEPT !.charset = "Alphanumeric"]
      [] arg = "--pronounceable" -> [cfg EXCEPT !.mode = "Pronounceable"]
      [] arg = "--words" -> [cfg EXCEPT !.mode = "Words"]
      [] arg = "--six" -> [cfg EXCEPT !.mode = "Six"]
      [] OTHER -> cfg

RECURSIVE ParseArgs(_, _)
ParseArgs(cfg, args) ==
    IF args = <<>> THEN cfg ELSE ParseArgs(ParseArg(cfg, Head(args)), Tail(args))

parse_snipe_args(args) == ParseArgs(SnipeConfigDefault, args)

(* DomainSniper::resume: the file it loads. *)
ResumeLength(cfg) ==
    CASE cfg.mode = "Words" -> 5
      [] cfg.mode = "Six" -> 6
      [] OTHER -> cfg.length

ResumeStatePath(cfg) ==
    IF IsSome(cfg.state_file) THEN Unwrap(cfg.state_file)
    ELSE default_path(ResumeLength(cfg))

(* DomainSniper::save_state: the file an engine whose state has this       *)
(* length saves to.                                                        *)
SaveStatePath(cfg, length) ==
    IF IsSome(cfg.state_file) THEN Unwrap(cfg.state_file) ELSE default_path(length)

(* The command lines: at most MaxFlags mode flags, and for the second      *)
(* command --resume put at any place among them; files is the set of state *)
(* files of the output directory, each with the length of the state in it. *)
ModeFlags == {"--alphanumeric", "--pronounceable", "--words", "--six"}

InsertAt(args, k, arg) == SubSeq(args, 1, k) \o <<arg>> \o SubSeq(args, k + 1, Len(args))

InitCommands ==
    \E n \in 0..MaxFlags :
        \E flags \in [1..n -> ModeFlags], k \in 0..n,
           before \in SUBSET {DefaultLength, 5} :
            /\ sys = "snipe_command"
            /\ config = [flags |-> flags, place |-> k]
            /\ state = [files |-> {[path |-> default_path(l), length |-> l] : l \in before}]
            /\ pc = "call"
            /\ tasks = <<>>
            /\ gen = GenNew
            /\ now = 0
            /\ permits = 0
            /\ last_save = 0
            /\ disk = Absent
            /\ world = [bodies |-> {}, static |-> TRUE]
            /\ registry = <<>>
            /\ hist = HistNew
            /\ ret = None

FileAt(files, path) == {f \in files : f.path = path}

(* One snipe command, run until it has saved: the engine it builds, the    *)
(* file it loaded, and the file it saves to.                               *)
run_snipe_command(args, files) ==
    LET cfg == parse_snipe_args(args)
        is_resume == IsSome(cfg.state_file) /\ FileAt(files, Unwrap(cfg.state_file)) # {}
        loaded == IF is_resume THEN FileAt(files, ResumeStatePath(cfg)) ELSE {}
        length == IF loaded # {} THEN (CHOOSE f \in loaded : TRUE).length
                  ELSE effective_length(cfg)
        saved == SaveStatePath(cfg, length)
    IN [args |-> args, resumed |-> loaded # {},
        loaded |-> IF loaded # {} THEN Some(ResumeStatePath(cfg)) ELSE None,
        saved |-> saved,
        files |-> {f \in files : f.path # saved} \cup {[path |-> saved, length |-> length]}]

(* snipe <mode flags> *)
FirstCommand ==
    /\ sys = "snipe_command" /\ pc = "call"
    /\ LET r == run_snipe_command(config.flags, state.files)
       IN /\ tasks' = Append(tasks, r)
          /\ state' = [state EXCEPT !.files = r.files]
    /\ pc' = "again"
    /\ UNCHANGED <<sys, config, gen, permits, last_save, disk, now, world, registry, hist,
                   ret>>

(* snipe <mode flags> with --resume among them *)
ResumeCommand ==
    /\ sys = "snipe_command" /\ pc = "again"
    /\ LET r == run_snipe_command(InsertAt(config.flags, config.place, "--resume"),
                                  state.files)
       IN /\ tasks' = Append(tasks, r)
          /\ state' = [state EXCEPT !.files = r.files]
          /\ ret' = Some(r)
    /\ pc' = "returned"
    /\ UNCHANGED <<sys, config, gen, permits, last_save, disk, now, world, registry, hist>>

NextCommands == FirstCommand \/ ResumeCommand

SpecCommands == InitCommands /\ [][NextCommands]_vars

(***************************************************************************)
(* DomainSniper::resume on the state file of an earlier scan that was      *)
(* started with a charset and a TLD list of its own, found nothing to      *)
(* record and was stopped at some index.  The earlier scan has the length  *)
(* of the resuming one, so that its file is the file resume loads.         *)
(***************************************************************************)
EarlierScans(cfg) ==
    {other \in [mode : {"Full"}, charset : {"Letters", "Alphanumeric"},
                length : {cfg.length}, tlds : TldLists] :
        default_path(effective_length(other)) = ResumeStatePath(cfg @@ [state_file |-> None])}

EarlierFiles(other) ==
    {[ScanStateNew(effective_length(other), other.tlds,
                   GenTotal(other) * Len(other.tlds), FoundAt) EXCEPT
          !.current_index = k, !.checked_count = k * Len(other.tlds)] :
        k \in 0..GenTotal(other)}

InitEarlier ==
    \E cfg \in SnipeConfigs({"Full"}) :
        \E other \in EarlierScans(cfg) :
            \E file \in EarlierFiles(other) :
                /\ sys = "snipe"
                /\ config = cfg
                /\ gen = GenNew
                /\ now = 0
                /\ state = SniperNewState(cfg, 0)
                /\ pc = "killed"
                /\ tasks = <<>>
                /\ permits = 0
                /\ last_save = 0
                /\ disk = file
                /\ world = [bodies |-> {NotFound, ServerError}, static |-> TRUE]
                /\ registry = <<>>
                /\ hist = HistNew
                /\ ret = None

SpecEarlier == InitEarlier /\ [][NextResume]_vars

(***************************************************************************)
(* The reference: the same scan with the probes of a batch made one after  *)
(* the other, against the answers the static registry has given.           *)
(***************************************************************************)
RECURSIVE SeqResults(_, _)
SeqResults(ts, cfg) ==
    IF ts = <<>> THEN <<>>
    ELSE LET t == Head(ts)
             fq == Fqdn(t.name, t.tld)
             r == IF ~IsSome(rdap_base_url(t.tld)) THEN None
                  ELSE IF fq \in DOMAIN registry
                  THEN Some(SnipeProbe(t.name, t.tld, registry[fq], cfg.expiring_days, now))
                  ELSE Some(SnipeResult(t.name, t.tld, "Unprobed", None, None, None))
         IN r \o SeqResults(Tail(ts), cfg)

RECURSIVE SeqRun(_, _, _, _)
SeqRun(cfg, g, st, stop) ==
    IF is_exhausted(cfg, g) \/ current_index(cfg, g) >= stop THEN st
    ELSE LET nb == next_batch(cfg, g, cfg.batch_size)
         IN IF nb.batch = <<>> THEN st
            ELSE LET s1 == ProcessResults(st, SeqResults(CheckTasks(nb.batch, cfg.tlds), cfg), now)
                     s2 == update_progress(s1, current_index(cfg, nb.gen), s1.checked_count,
                                           s1.error_count, now)
                 IN SeqRun(cfg, nb.gen, s2, stop)

CleanRunTo(stop) == SeqRun(config, GenNew, SniperNewState(config, now), stop)
CleanRun == CleanRunTo(GenTotal(config) + 1)

Fqdns(bucket) == [k \in 1..Len(bucket) |-> Fqdn(bucket[k].domain, bucket[k].tld)]

Buckets(st) ==
    <<Fqdns(st.available), Fqdns(st.expiring_soon), Fqdns(st.expired), Fqdns(st.errors)>>

Outcome(st) == <<Buckets(st), st.checked_count, st.error_count, st.current_index>>

IsPrefix(a, b) == Len(a) <= Len(b) /\ a = SubSeq(b, 1, Len(a))

(***************************************************************************)
(* The life of a scan: run with saves, kills and resumes, one probe at a   *)
(* time against a registry that answers 404 or 500, and the recheck of the *)
(* file of a finished scan.  The files rechecked here are those of         *)
(* StateFiles in which b.com is in no bucket, with the failed check of     *)
(* b.com in errors.                                                        *)
(***************************************************************************)
FilesWithError ==
    {[file EXCEPT !.errors = <<[domain |-> <<"b">>, tld |-> "com", error |-> <<"HTTP", 500>>]>>,
                  !.error_count = 1] :
        file \in {f \in StateFiles :
                     \A b \in 1..3 : Fqdn(<<"b">>, "com") \notin Range(Buckets(f)[b])}}

InitRecheckErrors ==
    \E cfg \in [expiring_days : {ExpiringDays}, concurrency : 0..MaxConcurrency],
       file \in FilesWithError :
        InitRecheck(cfg, file, [bodies |-> RecheckBodies, static |-> TRUE])

SpecRecheckErrors == InitRecheckErrors /\ [][NextRecheck]_vars

InitLife ==
    \/ \E cfg \in SnipeConfigs({"Full"}) :
          /\ cfg.concurrency = 1
          /\ InitSnipe(cfg, [bodies |-> {NotFound, ServerError}, static |-> TRUE])
    \/ InitRecheckErrors

NextLife == NextSnipe \/ NextRecheck

SpecLife == InitLife /\ [][NextLife]_vars

(***************************************************************************)
(* Scans and rechecks that are left to run: the process is not killed,     *)
(* every save succeeds, and the runtime goes on as long as a step is       *)
(* possible, so that a request that was sent returns and a permit that is  *)
(* free is given to a waiting probe.  The registry of a scan answers every *)
(* request alike: 404, a transport error such as a timeout, or 200.        *)
(***************************************************************************)
InitLive ==
    \/ \E cfg \in SnipeConfigs({"Full"}), body \in {NotFound, TransportError, NoExpiration} :
          InitSnipe(cfg, [bodies |-> {body}, static |-> TRUE])
    \/ InitRechecks

NextLive ==
    \/ LoopExit
    \/ NextBatch
    \/ \E i \in 1..Len(tasks) : Acquire(i)
    \/ \E i \in 1..Len(tasks) : Respond(i)
    \/ ApplyBatch
    \/ SaveOpen
    \/ SaveWrite
    \/ RecheckLoad
    \/ RecheckStart
    \/ \E i \in 1..Len(tasks) : RecheckAcquire(i)
    \/ \E i \in 1..Len(tasks) : RecheckRespond(i)
    \/ RecheckApply

SpecLive == InitLive /\ [][NextLive]_vars /\ WF_vars(NextLive)

(***************************************************************************)
(* C1.  Resume equivalence: against a static registry, a run killed after *)
(* at least one completed save, resumed and run to completion, ends with   *)
(* the buckets (as fqdns), checked_count, error_count and current_index of *)
(* one uninterrupted run; in particular the resume succeeds.               *)
(***************************************************************************)
KilledAfterSave == hist.kills > 0 /\ IsSome(hist.saved_at_kill)

C1_ResumeEquivalence ==
    (sys = "snipe" /\ world.static /\ KilledAfterSave) =>
        /\ pc # "resume_err"
        /\ (pc = "done" => Outcome(state) = Outcome(CleanRun))

(***************************************************************************)
(* C2.  A save is atomic under a crash: when the process has been killed,  *)
(* the state file is absent or a complete snapshot, never an empty or      *)
(* truncated document.                                                     *)
(***************************************************************************)
C2_SaveAtomic ==
    (sys = "snipe" /\ pc = "killed") => disk # Torn

(***************************************************************************)
(* C3.  The batch is joined before the cursor advances: every snapshot in  *)
(* the state file holds exactly what the probes of the names below its     *)
(* current_index yield, batch after batch, and nothing of a later name.    *)
(***************************************************************************)
C3_SnapshotIsJoinedPrefix ==
    (sys = "snipe" /\ world.static /\ IsSnapshot(disk)) =>
        Outcome(disk) = Outcome(CleanRunTo(disk.current_index))

C3_Witness ==
    /\ sys = "snipe" /\ world.static /\ IsSnapshot(disk)
    /\ ~disk.completed
    /\ config.concurrency > 1 /\ Len(config.tlds) > 1
    /\ disk.current_index > 0 /\ disk.current_index < GenTotal(config)
    /\ Len(disk.available) > 0 /\ Len(disk.errors) > 0
    /\ pc = "join" /\ InFlight(tasks) > 0

(***************************************************************************)
(* C4.  Durability: after a kill that follows a completed save, resume     *)
(* loads a state whose current_index is at least the cursor of the last    *)
(* completed save and at most the number of checks completed, and whose    *)
(* buckets are prefixes of the buckets of an uninterrupted run.            *)
(***************************************************************************)
C4_Durability ==
    (sys = "snipe" /\ world.static /\ KilledAfterSave /\ pc # "killed") =>
        /\ IsSome(hist.loaded)
        /\ Unwrap(hist.loaded).current_index >= Unwrap(hist.saved_at_kill).current_index
        /\ Unwrap(hist.loaded).current_index <= hist.checks
        /\ (pc = "done" =>
              \A b \in 1..4 : IsPrefix(Buckets(Unwrap(hist.loaded))[b], Buckets(CleanRun)[b]))

(***************************************************************************)
(* C5.  In every state of a scan built by new and driven by run,           *)
(* 0 <= current_index <= total_combinations.                               *)
(***************************************************************************)
C5_CursorInRange ==
    (sys = "snipe" /\ hist.kills = 0) =>
        /\ 0 <= state.current_index
        /\ state.current_index <= state.total_combinations

(***************************************************************************)
(* C6.  When a batch has been joined and processed, every task of          *)
(* names x tlds has yielded one result, checked_count has grown by         *)
(* |names| x |tlds|, and error_count has grown by the failed probes.       *)
(***************************************************************************)
C6_OneResultPerTask ==
    [][(sys = "snipe" /\ pc = "join" /\ pc' \in {"loop", "save"}) =>
          /\ \A i \in 1..Len(tasks) : IsSome(tasks[i].result)
          /\ state'.checked_count = state.checked_count + Len(tasks)
          /\ Len(state'.errors) - Len(state.errors)
               = Cardinality({i \in 1..Len(tasks) :
                     IsSome(tasks[i].result) /\ Unwrap(tasks[i].result).status = "Error"})
          /\ state'.error_count = Len(state'.errors)]_vars


(***************************************************************************)
(* C7.  Classification of a probe by its expiration instant e: 404 ends in *)
(* available; 200 with e not after now ends in expired; 200 with           *)
(* now < e <= now + T days ends in expiring_soon; 200 with e later than    *)
(* that ends in no bucket.  Checked at the end of an uninterrupted scan    *)
(* for every fqdn the registry was asked about.                            *)
(***************************************************************************)
InBucket(st, b, fq) == \E k \in 1..Len(st[b]) : Fqdn(st[b][k].domain, st[b][k].tld) = fq

BucketsOf(st, fq) == {b \in BucketNames : InBucket(st, b, fq)}

ExpectedBuckets(resp, T, t) ==
    IF resp.code = 404 THEN {"available"}
    ELSE IF Unwrap(resp.exp) <= t THEN {"expired"}
    ELSE IF Unwrap(resp.exp) <= t + 24 * T THEN {"expiring_soon"}
    ELSE {}

C7_Classification ==
    (sys = "snipe" /\ world.static /\ pc = "done" /\ hist.kills = 0) =>
        \A fq \in DOMAIN registry :
            (registry[fq].code = 404 \/ (registry[fq].code = 200 /\ IsSome(registry[fq].exp)))
                => BucketsOf(state, fq) = ExpectedBuckets(registry[fq], config.expiring_days, now)

(***************************************************************************)
(* C8.  Concurrency bound: the registry requests in flight never exceed    *)
(* the limit of the gate (concurrency for a scan, max(concurrency, 1) for  *)
(* a recheck, concurrent_checks for the checker), and while probes are     *)
(* pending the permits taken from the gate are exactly those of the probes *)
(* in flight, a probe in its WHOIS fallback included.                      *)
(***************************************************************************)
Limit ==
    CASE sys = "snipe" -> config.concurrency
      [] sys = "recheck" -> Max(config.concurrency, 1)
      [] OTHER -> config.concurrent_checks

C8_ConcurrencyBound ==
    /\ Requests(tasks) <= Limit
    /\ tasks # <<>> => Requests(tasks) + permits = Limit

C8_Witness ==
    /\ sys = "checker" /\ pc = "ck_join"
    /\ permits = 0 /\ Requests(tasks) = Limit
    /\ \E i \in 1..Len(tasks) : tasks[i].st = "whois"
    /\ \E i \in 1..Len(tasks) : tasks[i].st = "wait"

(***************************************************************************)
(* C9.  Bucket disjointness: no fqdn is in more than one of available,     *)
(* expiring_soon and expired.                                              *)
(***************************************************************************)
C9_BucketsDisjoint ==
    (sys \in {"snipe", "recheck"}) =>
        \A b1 \in BucketNames : \A b2 \in BucketNames \ {b1} :
            \A k \in 1..Len(state[b1]) :
                ~InBucket(state, b2, Fqdn(state[b1][k].domain, state[b1][k].tld))

(***************************************************************************)
(* C10.  Recheck of an entry taken from expiring_soon: 404 moves it to     *)
(* available; 200 with 0 < days <= threshold keeps it in expiring_soon     *)
(* with the refreshed expiration; 200 with days <= 0 moves it to expired;  *)
(* 200 with days > threshold drops it from every bucket; a transport       *)
(* failure, another status, a TLD without an RDAP endpoint, an unparseable *)
(* body or a missing expiration keeps it, unchanged, in expiring_soon.     *)
(***************************************************************************)
OnlyIn(st, b, entry) ==
    /\ \E k \in 1..Len(st[b]) : st[b][k] = entry
    /\ BucketsOf(st, Fqdn(entry.domain, entry.tld)) = {b}

RecheckedExpiring(st, e, T, t) ==
    LET fq == Fqdn(e.domain, e.tld)
        resp == IF fq \in DOMAIN registry THEN registry[fq] ELSE TransportError
    IN IF \/ ~IsSome(rdap_base_url(e.tld))
          \/ resp.code \notin {200, 404}
          \/ (resp.code = 200 /\ (~resp.json \/ ~IsSome(resp.exp)))
       THEN OnlyIn(st, "expiring_soon", e)
       ELSE IF resp.code = 404
       THEN OnlyIn(st, "available",
                   [e EXCEPT !.expiration_date = None, !.days_until_expiry = None,
                             !.found_at = t])
       ELSE LET days == NumDays(Unwrap(resp.exp) - t)
                refreshed == [e EXCEPT !.expiration_date = resp.exp,
                                       !.days_until_expiry = Some(days), !.found_at = t]
            IN IF 0 < days /\ days <= T THEN OnlyIn(st, "expiring_soon", refreshed)
               ELSE IF days <= 0 THEN OnlyIn(st, "expired", refreshed)
               ELSE BucketsOf(st, fq) = {}

Rechecked == sys = "recheck" /\ pc \in {"rk_done", "rk_save", "rk_saved"}

Answer(e) ==
    LET fq == Fqdn(e.domain, e.tld)
    IN IF fq \in DOMAIN registry THEN registry[fq] ELSE TransportError

RecheckedAvailable(st, e, T, t) ==
    LET fq == Fqdn(e.domain, e.tld)
        resp == Answer(e)
    IN IF ~IsSome(rdap_base_url(e.tld)) \/ resp.code \notin {200, 404}
       THEN OnlyIn(st, "available", e)
       ELSE IF resp.code = 404
       THEN OnlyIn(st, "available", [e EXCEPT !.found_at = t])
       ELSE IF resp.json /\ IsSome(resp.exp)
       THEN LET days == NumDays(Unwrap(resp.exp) - t)
            IN IF 0 < days /\ days <= T
               THEN OnlyIn(st, "expiring_soon",
                           [e EXCEPT !.expiration_date = resp.exp,
                                     !.days_until_expiry = Some(days), !.found_at = t])
               ELSE BucketsOf(st, fq) = {}
       ELSE BucketsOf(st, fq) = {}

C11_RecheckAvailable ==
    Rechecked =>
        \A k \in 1..Len(Unwrap(hist.before).available) :
            RecheckedAvailable(state, Unwrap(hist.before).available[k],
                               config.expiring_days, now)

(***************************************************************************)
(* C12.  Recheck of an entry taken from expired: 404 moves it to           *)
(* available; 200 with 0 < days <= threshold moves it to expiring_soon;    *)
(* 200 with days <= 0 keeps it in expired with the refreshed expiration,   *)
(* days and probe instant; 200 with days > threshold drops it from every   *)
(* bucket; a probe error (transport failure, another status, a TLD without *)
(* an RDAP endpoint) keeps it, unchanged, in expired.  The claim names no  *)
(* outcome for a 200 answer without a readable expiration.                 *)
(***************************************************************************)
RecheckedExpired(st, e, T, t) ==
    LET fq == Fqdn(e.domain, e.tld)
        resp == Answer(e)
    IN IF ~IsSome(rdap_base_url(e.tld)) \/ resp.code \notin {200, 404}
       THEN OnlyIn(st, "expired", e)
       ELSE IF resp.code = 404
       THEN OnlyIn(st, "available",
                   [e EXCEPT !.expiration_date = None, !.days_until_expiry = None,
                             !.found_at = t])
       ELSE IF resp.json /\ IsSome(resp.exp)
       THEN LET days == NumDays(Unwrap(resp.exp) - t)
                refreshed == [e EXCEPT !.expiration_date = resp.exp,
                                       !.days_until_expiry = Some(days), !.found_at = t]
            IN IF 0 < days /\ days <= T THEN OnlyIn(st, "expiring_soon", refreshed)
               ELSE IF days <= 0 THEN OnlyIn(st, "expired", refreshed)
               ELSE BucketsOf(st, fq) = {}
       ELSE TRUE

FqdnSeq(bucket) == [k \in 1..Len(bucket) |-> Fqdn(bucket[k].domain, bucket[k].tld)]

RecheckedTwice ==
    sys = "recheck" /\ pc = "rk_done" /\ hist.rechecks >= 1 /\ world.static

C13_RecheckIdempotent ==
    RecheckedTwice =>
        /\ \A b \in BucketNames : FqdnSeq(state[b]) = FqdnSeq(disk[b])
        /\ state = [disk EXCEPT !.update_times = Append(@, now), !.updated_at = now]

(***************************************************************************)
(* C14.  Recheck tallies: in the report of recheck_expiring_soon           *)
(* checked_expiring = still_expiring + expiring_now_available +            *)
(* already_expired + no_longer_expiring + expiring_errors_kept = the prior *)
(* length of expiring_soon; checked_available = still_available +          *)
(* available_now_expiring + no_longer_available + available_errors_kept =  *)
(* the prior length of available; checked_expired = still_expired +        *)
(* expired_now_available + expired_now_expiring + no_longer_expired +      *)
(* expired_errors_kept = the prior length of expired; total_checked is the *)
(* sum of the three.                                                       *)
(***************************************************************************)
C14_TalliesSum ==
    Rechecked =>
        LET r == Unwrap(ret)
            before == Unwrap(hist.before)
        IN /\ r.checked_expiring = r.ExpiringStill + r.ExpiringNowAvailable
                  + r.ExpiringNowExpired + r.ExpiringNoLonger + r.ExpiringErrorKeep
           /\ r.checked_expiring = Len(before.expiring_soon)
           /\ r.checked_available = r.AvailableStill + r.AvailableNowExpiring
                  + r.AvailableNoLonger + r.AvailableErrorKeep
           /\ r.checked_available = Len(before.available)
           /\ r.checked_expired = r.ExpiredStill + r.ExpiredNowAvailable
                  + r.ExpiredNowExpiring + r.ExpiredNoLonger + r.ExpiredErrorKeep
           /\ r.checked_expired = Len(before.expired)
           /\ r.total_checked
                  = r.checked_expiring + r.checked_available + r.checked_expired

C14_Witness ==
    /\ Rechecked
    /\ Unwrap(ret).checked_available = 1
    /\ Unwrap(ret).checked_expired = 1
    /\ Unwrap(ret).AvailableNoLonger = 1
    /\ Unwrap(ret).ExpiredNowExpiring = 1

(***************************************************************************)
(* C15.  update_times history: every call of recheck_expiring_soon, on any *)
(* state, keeps the update_times entries it found, appends exactly one     *)
(* timestamp and leaves updated_at equal to the last element; a scan (run, *)
(* add_*, update_progress, mark_completed) never touches update_times,     *)
(* which ScanState::new left empty.                                        *)
(***************************************************************************)
C15_UpdateTimes ==
    /\ Rechecked =>
          state.update_times = Append(Unwrap(hist.before).update_times, state.updated_at)
    /\ sys = "snipe" => state.update_times = <<>>

(***************************************************************************)
(* C16.  Sorting invariant: after every recheck expiring_soon is ordered   *)
(* by expiration_date ascending, entries without an expiration_date come   *)
(* after all entries that have one, and entries with equal (or both        *)
(* missing) expiration_date are ordered by fqdn.  No scan or recheck files *)
(* an entry without a date under expiring_soon, so the sort is also run on *)
(* every list of at most MaxEntries + 1 sample entries, dated and undated. *)
(***************************************************************************)
MayPrecede(a, b) ==
    IF IsSome(a.expiration_date) /\ IsSome(b.expiration_date)
    THEN \/ Unwrap(a.expiration_date) < Unwrap(b.expiration_date)
         \/ /\ Unwrap(a.expiration_date) = Unwrap(b.expiration_date)
            /\ ~LexLess(FullDomainKey(b), FullDomainKey(a))
    ELSE IF IsSome(a.expiration_date) THEN TRUE
    ELSE IF IsSome(b.expiration_date) THEN FALSE
    ELSE ~LexLess(FullDomainKey(b), FullDomainKey(a))

IsSortedExpiring(entries) ==
    \A i \in 1..Len(entries) : \A j \in (i + 1)..Len(entries) :
        MayPrecede(entries[i], entries[j])

SortSamples == {PoolEntry(fq, b) : fq \in Range(EntryPool), b \in BucketNames}

SortCases == UNION {[1..n -> SortSamples] : n \in 0..(MaxEntries + 1)}

SameEntries(x, y) ==
    /\ Len(x) = Len(y)
    /\ \A e \in Range(x) \cup Range(y) :
          Cardinality({k \in 1..Len(x) : x[k] = e}) = Cardinality({k \in 1..Len(y) : y[k] = e})

SortCasesSorted ==
    \A c \in SortCases :
        IsSortedExpiring(SortExpiring(c)) /\ SameEntries(SortExpiring(c), c)

C16_ExpiringSorted ==
    /\ Rechecked => IsSortedExpiring(state.expiring_soon)
    /\ SortCasesSorted

C16_Witness ==
    /\ Rechecked
    /\ Len(state.expiring_soon) = 2
    /\ state.expiring_soon[1].expiration_date = state.expiring_soon[2].expiration_date
    /\ Len(Unwrap(hist.before).expiring_soon) = 1
    /\ Len(Unwrap(hist.before).available) = 1
    /\ FqdnSeq(state.expiring_soon)
          = FqdnSeq(Unwrap(hist.before).available) \o FqdnSeq(Unwrap(hist.before).expiring_soon)

(***************************************************************************)
(* C17.  Checker fallback order in check_domain: when RDAP is enabled and  *)
(* the RDAP client returns a result, WHOIS is not asked and the result     *)
(* carries that status with method RDAP; when the RDAP client fails with   *)
(* an error that suggests availability, the result is Available with       *)
(* method RDAP and WHOIS is not asked; WHOIS is asked only after an RDAP   *)
(* failure that does not suggest availability, or when RDAP is disabled.   *)
(***************************************************************************)
SuggestsAvailability(err) ==
    \/ err.variant = "DomainCheck" /\ Mentions(err.message)
    \/ err.variant = "Network" /\ err.status_code = Some(404)

WhoisAsked(t) == t.st = "whois" \/ IsSome(t.whois)

FallbackOrder(t) ==
    /\ IsSome(t.rdap) => config.enable_rdap
    /\ (IsSome(t.rdap) /\ Unwrap(t.rdap).ok) =>
          /\ ~WhoisAsked(t)
          /\ t.st = "done"
          /\ Unwrap(t.result).ok
          /\ Unwrap(t.result).method = "Rdap"
          /\ Unwrap(t.result).status = Unwrap(t.rdap).status
    /\ (IsSome(t.rdap) /\ ~Unwrap(t.rdap).ok /\ SuggestsAvailability(Unwrap(t.rdap).err)) =>
          /\ ~WhoisAsked(t)
          /\ t.st = "done"
          /\ Unwrap(t.result).ok
          /\ Unwrap(t.result).method = "Rdap"
          /\ Unwrap(t.result).status = "Available"
    /\ WhoisAsked(t) =>
          \/ ~config.enable_rdap
          \/ /\ IsSome(t.rdap) /\ ~Unwrap(t.rdap).ok
             /\ ~SuggestsAvailability(Unwrap(t.rdap).err)

C17_FallbackOrder ==
    sys = "checker" => \A i \in 1..Len(tasks) : FallbackOrder(tasks[i])

C17_Witness ==
    /\ sys = "checker" /\ config.enable_rdap /\ Len(tasks) = 2
    /\ \E i \in 1..Len(tasks) :
          /\ IsSome(tasks[i].rdap) /\ ~Unwrap(tasks[i].rdap).ok
          /\ SuggestsAvailability(Unwrap(tasks[i].rdap).err)
          /\ tasks[i].st = "done"
    /\ \E i \in 1..Len(tasks) :
          /\ IsSome(tasks[i].rdap) /\ ~Unwrap(tasks[i].rdap).ok
          /\ IsSome(tasks[i].whois)
          /\ tasks[i].st = "done"

(***************************************************************************)
(* C18.  A valid domain whose TLD has no RDAP endpoint never gets a result *)
(* with method RDAP: the RDAP step fails without a request to the          *)
(* registry, the failure does not count as a sign of availability, and     *)
(* the checker goes on to WHOIS, whose answer, with method WHOIS, is the   *)
(* result (Available when the text is a "No match" answer).                *)
(***************************************************************************)
WithoutEndpoint(t) ==
    /\ t.st = "done"
    /\ validate(t.domain)
    /\ ~IsSome(rdap_base_url(t.domain[2]))

WhoisFallback(t) ==
    /\ Unwrap(t.result).ok
    /\ Unwrap(t.result).method # "Rdap"
    /\ t.domain \notin DOMAIN registry
    /\ IsSome(t.rdap) => ~Unwrap(t.rdap).ok
    /\ config.enable_whois =>
          /\ IsSome(t.whois)
          /\ Unwrap(t.whois).ok =>
                /\ Unwrap(t.result).method = "Whois"
                /\ Unwrap(t.result).status = Unwrap(t.whois).status

C18_UnknownTldFallsBack ==
    sys = "checker" =>
        \A i \in 1..Len(tasks) : WithoutEndpoint(tasks[i]) => WhoisFallback(tasks[i])

(***************************************************************************)
(* C19.  Probe failures are results, not exceptions: check_domain returns  *)
(* Err exactly when the name fails validation; when every enabled client   *)
(* has failed for a validated name (with an error that is not taken as a   *)
(* sign of availability, the case of C17) it returns Ok with status        *)
(* Unknown, method Unknown and error_message "All checking methods         *)
(* failed"; and check_domains returns Ok with the Ok results in the order  *)
(* of its input, one for every domain that passes validation.              *)
(***************************************************************************)
Failed(probe) ==
    IsSome(probe) /\ ~Unwrap(probe).ok /\ ~SuggestsAvailability(Unwrap(probe).err)

EveryMethodFailed(t) ==
    /\ config.enable_rdap => Failed(t.rdap)
    /\ config.enable_whois => Failed(t.whois)

FailureIsResult(t) ==
    /\ Unwrap(t.result).ok <=> validate(t.domain)
    /\ (validate(t.domain) /\ EveryMethodFailed(t)) =>
          Unwrap(t.result) = [ok |-> TRUE, domain |-> t.domain, status |-> "Unknown",
                              method |-> "Unknown",
                              error_message |-> Some("All checking methods failed")]

BatchReturned ==
    (sys = "checker" /\ pc = "ck_join" /\ pc' = "ck_done") =>
        /\ IsSome(ret')
        /\ [k \in 1..Len(Unwrap(ret')) |-> Unwrap(ret')[k].domain]
              = SelectSeq([k \in 1..Len(tasks) |-> tasks[k].domain], validate)
        /\ \A k \in 1..Len(Unwrap(ret')) : Unwrap(ret')[k].ok

UnmarkedWhois(t) ==
    /\ t.st = "done"
    /\ IsSome(t.whois)
    /\ Unwrap(t.whois).ok
    /\ Unwrap(t.whois).status = "Unknown"

C20_UnmarkedWhoisIsError ==
    sys = "checker" =>
        /\ \A i \in 1..Len(tasks) :
              UnmarkedWhois(tasks[i]) =>
                  /\ Unwrap(tasks[i].result).status = "Unknown"
                  /\ Unwrap(tasks[i].result).method = "Unknown"
                  /\ Unwrap(tasks[i].result).error_message
                        = Some("All checking methods failed")
        /\ state.errors_encountered
              >= Cardinality({i \in 1..Len(tasks) : UnmarkedWhois(tasks[i])})

(***************************************************************************)
(* C21.  WHOIS text classification: parse_whois_response yields Available  *)
(* exactly when the text holds, in any letter case, at least one           *)
(* availability marker and no taken marker, and yields Taken whenever the  *)
(* text holds a taken marker (registrar:, creation date:, created:,        *)
(* registered:, name server:, nameserver:, domain status:, status:), even  *)
(* if an availability marker is present as well.                           *)
(***************************************************************************)
TakenMarkers ==
    { <<"registrar:">>, <<"creation", "date:">>, <<"created:">>, <<"registered:">>,
      <<"name", "server:">>, <<"nameserver:">>, <<"domain", "status:">>, <<"status:">> }

AvailabilityMarkers == {available_patterns[p] : p \in 1..Len(available_patterns)}

Holds(text, markers) ==
    \E m \in markers :
        \E k \in 0..(Len(text) - Len(m)) :
            \A j \in 1..Len(m) : to_lowercase(text[k + j]) = m[j]

MessageSuggests(message) ==
    Holds(message, { <<"not", "found">>, <<"no", "match">>, <<"available">> })

C22_SuggestsAvailable ==
    (sys = "suggests_available" /\ IsSome(ret)) =>
        (Unwrap(ret) <=> (MessageSuggests(config.message) \/ config.status_code = Some(404)))

(***************************************************************************)
(* C23.  Metrics accounting: whatever the order and interleaving of the    *)
(* check_domain calls on one DomainChecker, domains_checked is the number  *)
(* of calls that completed with a DomainResult (whatever its status),      *)
(* errors_encountered is the number of calls that ended in "All checking   *)
(* methods failed", every call that completed with a DomainResult has      *)
(* added its elapsed time to total_check_time_ms exactly once, and no      *)
(* counter ever decreases.                                                 *)
(***************************************************************************)
CompletedCalls ==
    {i \in 1..Len(tasks) : tasks[i].st = "done" /\ Unwrap(tasks[i].result).ok}

FailedCalls ==
    {i \in CompletedCalls :
        Unwrap(tasks[i].result).error_message = Some("All checking methods failed")}

RECURSIVE SumDurations(_)
SumDurations(calls) ==
    IF calls = {} THEN 0
    ELSE LET i == CHOOSE j \in calls : TRUE
         IN Unwrap(tasks[i].duration) + SumDurations(calls \ {i})

NoCounterDecreases ==
    sys = "checker" =>
        /\ state'.domains_checked >= state.domains_checked
        /\ state'.errors_encountered >= state.errors_encountered
        /\ state'.total_check_time_ms >= state.total_check_time_ms

C23_MetricsAccounting ==
    /\ []((sys = "checker" /\ pc = "ck_join") =>
            /\ state.domains_checked = Cardinality(CompletedCalls)
            /\ state.errors_encountered = Cardinality(FailedCalls)
            /\ state.total_check_time_ms = SumDurations(CompletedCalls))
    /\ [][NoCounterDecreases]_vars

(***************************************************************************)
(* C24.  Enumerator restartability: for every enumerator (Full,            *)
(* Pronounceable, Words, Six) and every k in 0..total, the names returned  *)
(* by next_batch(k) followed by next_batch(total - k) on a fresh           *)
(* enumerator are, as a multiset, the names a single next_batch(total)     *)
(* returns on a fresh enumerator; and set_index(k) followed by             *)
(* next_batch(total - k) returns exactly the tail, from position k, of     *)
(* that sequence.                                                          *)
(***************************************************************************)
FreshSequence == next_batch(config, GenNew, GenTotal(config)).batch

SplitAt(k) ==
    /\ Len(tasks) = 2
    /\ tasks[1].op = "next_batch" /\ tasks[1].arg = k
    /\ tasks[2].op = "next_batch" /\ tasks[2].arg = GenTotal(config) - k

ResumedAt(k) ==
    /\ Len(tasks) = 2
    /\ tasks[1].op = "set_index" /\ tasks[1].arg = k
    /\ tasks[2].op = "next_batch" /\ tasks[2].arg = GenTotal(config) - k

C24_Restartable ==
    (sys = "enumerator" /\ config.index <= GenTotal(config)) =>
        /\ SplitAt(config.index) =>
              SameEntries(tasks[1].batch \o tasks[2].batch, FreshSequence)
        /\ ResumedAt(config.index) =>
              tasks[2].batch = SubSeq(FreshSequence, config.index + 1, Len(FreshSequence))

(***************************************************************************)
(* C25.  Enumerator bijection, for the Full generator (charsets Letters    *)
(* and Alphanumeric, any length) and the Six generator: for every i below  *)
(* total, set_index(i) followed by next_batch(1) returns exactly the i-th  *)
(* element of the sequence (for Full the i-th word in base-|charset|       *)
(* positional order), and iterating from 0 to total yields exactly total   *)
(* pairwise distinct strings, each of the declared length and all ASCII    *)
(* lowercase.                                                              *)
(***************************************************************************)
AsciiLowercase ==
    {"a", "b", "c", "d", "e", "f", "g", "h", "i", "j", "k", "l", "m",
     "n", "o", "p", "q", "r", "s", "t", "u", "v", "w", "x", "y", "z"}

PositionalWord(cs, length, i) ==
    [j \in 1..length |-> cs[((i \div Pow(Len(cs), length - j)) % Len(cs)) + 1]]

ElementAt(i) ==
    /\ Len(tasks) = 2
    /\ tasks[1].op = "set_index" /\ tasks[1].arg = i
    /\ tasks[2].op = "next_batch" /\ tasks[2].arg = 1

Iterated ==
    /\ Len(tasks) = 1
    /\ tasks[1].op = "next_batch" /\ tasks[1].arg = GenTotal(config)

C25_Bijection ==
    (sys = "enumerator" /\ config.mode \in {"Full", "Six"}) =>
        /\ (config.index < GenTotal(config) /\ ElementAt(config.index)) =>
              /\ tasks[2].batch = <<FreshSequence[config.index + 1]>>
              /\ config.mode = "Full" =>
                    tasks[2].batch
                       = <<PositionalWord(chars(config.charset), config.length, config.index)>>
        /\ Iterated =>
              LET names == tasks[1].batch
              IN /\ Len(names) = GenTotal(config)
                 /\ \A i \in 1..Len(names) : \A j \in 1..Len(names) :
                       names[i] = names[j] => i = j
                 /\ \A i \in 1..Len(names) :
                       /\ Len(names[i]) = config.length
                       /\ \A k \in 1..Len(names[i]) : names[i][k] \in AsciiLowercase

(***************************************************************************)
(* C26.  set_index clamps and is idempotent: for every enumerator (Full,   *)
(* Pronounceable, Words, Six) and every index i, after set_index(i)        *)
(* current_index() is min(i, total()); a second set_index(i) changes       *)
(* nothing; and after set_index(i) with i >= total() the enumerator is     *)
(* exhausted and next_batch returns an empty batch.                        *)
(***************************************************************************)
Clamped(call) ==
    call.op = "set_index" =>
        /\ call.index = (IF call.arg < GenTotal(config) THEN call.arg ELSE GenTotal(config))
        /\ call.arg >= GenTotal(config) => call.exhausted

C26_SetIndexClamps ==
    sys = "enumerator" =>
        /\ \A c \in 1..Len(tasks) : Clamped(tasks[c])
        /\ \A c \in 2..Len(tasks) :
              /\ (tasks[c - 1].op = "set_index" /\ tasks[c].op = "set_index") =>
                    tasks[c].after = tasks[c].before
              /\ (tasks[c - 1].op = "set_index" /\ tasks[c - 1].arg >= GenTotal(config)
                    /\ tasks[c].op = "next_batch") =>
                    /\ tasks[c].batch = <<>>
                    /\ tasks[c].exhausted

C26_Witness ==
    /\ sys = "enumerator" /\ config.mode = "Pronounceable" /\ Len(tasks) = 2
    /\ tasks[1].op = "set_index" /\ tasks[1].arg > GenTotal(config)
    /\ tasks[2].op = "next_batch" /\ tasks[2].arg > 0 /\ tasks[2].batch = <<>>

(***************************************************************************)
(* C27.  The contract of next_batch: for every enumerator and every n,     *)
(* next_batch(n) returns exactly n names unless the enumerator runs out    *)
(* during the call, and then is_exhausted() is true afterwards; for the    *)
(* Full generator standing at index i the batch is domain_at(i),           *)
(* domain_at(i + 1), ... in order, and current_index() afterwards is i     *)
(* plus the length of the batch.                                           *)
(***************************************************************************)
BatchContract(call) ==
    call.op = "next_batch" =>
        /\ Len(call.batch) = call.arg \/ (Len(call.batch) < call.arg /\ call.exhausted)
        /\ config.mode = "Full" =>
              /\ \A j \in 1..Len(call.batch) :
                    Some(call.batch[j])
                       = domain_at(config.charset, config.length, call.from + j - 1)
              /\ call.index = call.from + Len(call.batch)

C27_NextBatchContract ==
    sys = "enumerator" => \A c \in 1..Len(tasks) : BatchContract(tasks[c])

C27_Witness ==
    /\ sys = "enumerator" /\ config.mode = "Full" /\ Len(tasks) = 2
    /\ tasks[1].op = "next_batch" /\ tasks[1].arg = 1 /\ Len(tasks[1].batch) = 1
    /\ tasks[2].op = "next_batch" /\ tasks[2].from = 1
    /\ Len(tasks[2].batch) >= 2 /\ Len(tasks[2].batch) < tasks[2].arg
    /\ tasks[2].exhausted

(***************************************************************************)
(* C30.  Load errors: ScanState::load and DomainSniper::resume return an   *)
(* error to the caller when the state file is missing, and a Parse error   *)
(* that carries the content of the file when the file is not the JSON of   *)
(* a state; in both cases no engine is constructed and the failed resume   *)
(* neither creates nor modifies the state file.                            *)
(***************************************************************************)
ResumeFailed == sys = "snipe" /\ pc = "resume_err"

LoadErrorReturned ==
    ResumeFailed =>
        /\ IsSome(ret)
        /\ load(disk) = [ok |-> FALSE, err |-> Unwrap(ret)]
        /\ disk # Absent => Unwrap(ret) = [variant |-> "Parse", content |-> Some(disk)]

FailedResumeTouchesNothing ==
    /\ ResumeFailed' =>
          /\ disk' = disk
          /\ gen' = gen /\ state' = state /\ permits' = permits /\ tasks' = tasks
    /\ ~ResumeFailed

C30_LoadErrors == []LoadErrorReturned /\ [][FailedResumeTouchesNothing]_vars

C30_Witness ==
    /\ ResumeFailed /\ disk = Garbage
    /\ Unwrap(ret).content = Some(Garbage)
    /\ state = SniperNewState(config, 0) /\ permits = 0

(***************************************************************************)
(* C28.  Periodic save: during run, after each batch the state is saved    *)
(* exactly when checked_count - last_save >= save_interval, last_save      *)
(* being checked_count at the previous periodic save of this run and 0 at  *)
(* its start; so at the end of every loop iteration fewer than             *)
(* save_interval checks are unsaved; and a save that fails aborts run with *)
(* the error, the sweep does not go on.                                    *)
(***************************************************************************)
Unsaved == state.checked_count - (IF IsSnapshot(disk) THEN disk.checked_count ELSE 0)

BatchEnds == sys = "snipe" /\ pc = "join" /\ pc' # "join"

PeriodicSaveEnds == sys = "snipe" /\ pc = "save_write" /\ pc' = "loop"

SavedWhenDue ==
    /\ BatchEnds =>
          /\ pc' \in {"save", "loop"}
          /\ pc' = "save" <=> state'.checked_count - last_save' >= config.save_interval
          /\ last_save' = last_save
    /\ PeriodicSaveEnds => (disk' = state /\ last_save' = state.checked_count)
    /\ (sys = "snipe" /\ pc = "killed" /\ pc' = "loop") => last_save' = 0
    /\ ~(sys = "snipe" /\ pc = "save_err")

FewUnsaved ==
    (sys = "snipe" /\ pc = "loop") => Unsaved < config.save_interval

SaveErrorReturned ==
    (sys = "snipe" /\ pc = "save_err") => IsSome(ret)

C28_PeriodicSave == []FewUnsaved /\ []SaveErrorReturned /\ [][SavedWhenDue]_vars

C28_Witness ==
    /\ sys = "snipe" /\ pc = "loop"
    /\ IsSome(hist.loaded)
    /\ last_save > 0 /\ state.checked_count > last_save
    /\ IsSnapshot(disk) /\ Unsaved > 0

(***************************************************************************)
(* C29.  Completion: run sets completed = true only when the enumerator is *)
(* exhausted, every name of the name space having been pulled and checked, *)
(* for every SnipeConfig including batch_size = 0; when run returns Ok the *)
(* saved snapshot has completed = true and is the state in memory, and     *)
(* completed is false in every snapshot saved before that.                 *)
(***************************************************************************)
RunReturnedOk == sys = "snipe" /\ pc = "done"

C29_Completion ==
    sys = "snipe" =>
        /\ state.completed =>
              /\ is_exhausted(config, gen)
              /\ current_index(config, gen) = GenTotal(config)
              /\ state.current_index = GenTotal(config)
        /\ RunReturnedOk => (disk = state /\ disk.completed)
        /\ (IsSnapshot(disk) /\ ~RunReturnedOk) => ~disk.completed

(***************************************************************************)
(* C31.  The frame of run.  In every step of a scan that is not the kill   *)
(* of the process nor the load of a resume, each of the four buckets       *)
(* (available, expiring_soon, expired, errors) keeps what it held as a     *)
(* prefix of what it holds afterwards, so a recorded entry keeps position  *)
(* and content, and scan_id, length, tlds, total_combinations, started_at  *)
(* and update_times are not modified: only current_index, checked_count,   *)
(* error_count, updated_at and completed are overwritten.                  *)
(***************************************************************************)
RunStep == sys = "snipe" /\ pc \notin {"killed"} /\ pc' \notin {"killed"}

AppendOnly ==
    /\ IsPrefix(state.available, state'.available)
    /\ IsPrefix(state.expiring_soon, state'.expiring_soon)
    /\ IsPrefix(state.expired, state'.expired)
    /\ IsPrefix(state.errors, state'.errors)

RunFrame ==
    /\ state'.scan_id = state.scan_id
    /\ state'.length = state.length
    /\ state'.tlds = state.tlds
    /\ state'.total_combinations = state.total_combinations
    /\ state'.started_at = state.started_at
    /\ state'.update_times = state.update_times

C31_SnipeFrame == [][RunStep => (AppendOnly /\ RunFrame)]_vars

(* The run has recorded two available names and one batch more is joined. *)
C31_Witness ==
    /\ sys = "snipe" /\ pc = "join"
    /\ Len(state.available) >= 2
    /\ state.current_index > 0

(***************************************************************************)
(* C32.  State mutations are serialized through the driver.  While the     *)
(* probes of a batch run (every step between the launch of the batch and   *)
(* its join) the ScanState is not written; and against a static registry   *)
(* the state at every batch boundary, with the contents and the order of   *)
(* every bucket and all counters, is the state that the probes made one    *)
(* after the other in task order yield from the registry's answers,        *)
(* whatever the order in which the concurrent probes completed.            *)
(***************************************************************************)
ProbeStep == sys = "snipe" /\ pc = "join" /\ pc' = "join"

ProbesDoNotWrite == ProbeStep => state' = state

BatchBoundary == sys = "snipe" /\ world.static /\ pc \in {"loop", "save", "save_write"}

OrderIndependent == BatchBoundary => state = CleanRunTo(state.current_index)

C32_SerializedMutations == []OrderIndependent /\ [][ProbesDoNotWrite]_vars

(* A batch of several probes has been applied, and in the batch now        *)
(* running a later probe has completed while the first one has not.        *)
C32_Witness ==
    /\ sys = "snipe" /\ world.static /\ pc = "join"
    /\ config.concurrency > 1
    /\ state.current_index > 0 /\ state.checked_count > 1
    /\ Len(state.available) > 0 /\ Len(state.errors) > 0
    /\ Len(tasks) > 1 /\ tasks[2].st = "done" /\ tasks[1].st # "done"

(***************************************************************************)
(* C33.  Fallback ordering of generate_with_fallback.  Every provider      *)
(* called is configured and is called at most once, the default provider   *)
(* included; when the default provider is configured it is the first one   *)
(* called; no provider is called after a success, and the call returns     *)
(* the result of the provider that succeeded; the call returns Err only    *)
(* after every configured provider has been called and has failed, and the *)
(* error is that of the last provider called, or a Config error when no    *)
(* provider is configured.                                                 *)
(***************************************************************************)
CalledProviders == {tasks[i].provider : i \in 1..Len(tasks)}

FallbackOrdering ==
    /\ CalledProviders \subseteq config.providers
    /\ \A i, j \in 1..Len(tasks) : i # j => tasks[i].provider # tasks[j].provider
    /\ (has_provider(config, config.default_provider) /\ (tasks # <<>> \/ pc # "default"))
          => (tasks # <<>> /\ tasks[1].provider = config.default_provider)
    /\ \A i \in 1..Len(tasks) : tasks[i].ok => (i = Len(tasks) /\ pc = "returned")

FallbackReturn ==
    pc = "returned" =>
        LET r == Unwrap(ret)
        IN IF r.ok
           THEN tasks # <<>> /\ tasks[Len(tasks)].ok
                /\ r.provider = tasks[Len(tasks)].provider
           ELSE /\ CalledProviders = config.providers
                /\ \A i \in 1..Len(tasks) : ~tasks[i].ok
                /\ r.err = IF config.providers = {} THEN ErrConfig
                           ELSE ErrProvider(tasks[Len(tasks)].provider)

C33_FallbackOrdering ==
    sys = "generate_with_fallback" => (FallbackOrdering /\ FallbackReturn)

(* Four providers, a default that is not "openai": all four have failed    *)
(* and the call has returned the error of the last one.                    *)
C33_Witness ==
    /\ sys = "generate_with_fallback" /\ pc = "returned"
    /\ config.providers = ProviderNames /\ config.default_provider = "gemini"
    /\ Len(tasks) = 4 /\ ~Unwrap(ret).ok

(***************************************************************************)
(* C34.  Save/resume path agreement.  For every scan mode and every place  *)
(* of --resume among the flags, the command with --resume loads the state  *)
(* file the command without it saved to, and keeps saving to that file.    *)
(***************************************************************************)
C34_PathAgreement ==
    (sys = "snipe_command" /\ pc = "returned") =>
        /\ tasks[2].resumed
        /\ tasks[2].loaded = Some(tasks[1].saved)
        /\ tasks[2].saved = tasks[1].saved

(***************************************************************************)
(* C35.  Resume consistency.  At every batch boundary of an engine built   *)
(* by resume, the cursor of the enumerator is state.current_index and      *)
(* state.total_combinations is the enumerator's total times the number of  *)
(* configured TLDs: the state of a scan of another name space is not       *)
(* continued.                                                              *)
(***************************************************************************)
C35_ResumeConsistency ==
    (sys = "snipe" /\ IsSome(hist.loaded) /\ pc = "loop") =>
        /\ current_index(config, gen) = state.current_index
        /\ state.total_combinations = GenTotal(config) * Len(config.tlds)

(***************************************************************************)
(* C36.  Counter/cursor coupling.  In a scan started with new, at every    *)
(* batch boundary and in every saved snapshot checked_count is             *)
(* current_index times the number of TLDs, and when run has returned       *)
(* checked_count is total_combinations.                                    *)
(***************************************************************************)
Coupled(st) == st.checked_count = st.current_index * Len(st.tlds)

C36_CounterCursorCoupling ==
    sys = "snipe" =>
        /\ (pc \in {"loop", "save", "save_write"} => Coupled(state))
        /\ (IsSnapshot(disk) => Coupled(disk))
        /\ (pc = "done" => state.checked_count = state.total_combinations)

(***************************************************************************)
(* C37.  In every state of a scan started with new, across run, save,      *)
(* kill, resume and recheck, and in every snapshot on disk, error_count is *)
(* the number of entries of errors and is at most checked_count.           *)
(***************************************************************************)
ErrorsCounted(st) == st.error_count = Len(st.errors) /\ st.error_count <= st.checked_count

C37_ErrorCount ==
    sys \in {"snipe", "recheck"} =>
        /\ ErrorsCounted(state)
        /\ (IsSnapshot(disk) => ErrorsCounted(disk))

(* A scan that was killed and resumed has recorded failed checks, fewer    *)
(* than the checks it made, and has saved them.                            *)
C37_Witness ==
    /\ sys = "snipe" /\ hist.kills > 0 /\ IsSome(hist.loaded)
    /\ Len(Unwrap(hist.loaded).errors) > 0
    /\ Len(state.errors) > Len(Unwrap(hist.loaded).errors)
    /\ state.error_count < state.checked_count
    /\ IsSnapshot(disk) /\ disk.error_count = state.error_count

(***************************************************************************)
(* C38.  For every enumerator, in every state reached by next_batch and    *)
(* set_index, is_exhausted() is true exactly when current_index() is at    *)
(* least total(); so the enumerator reports exhausted right after the      *)
(* next_batch that emitted the last name.                                  *)
(***************************************************************************)
C38_ExhaustedIffAtTotal ==
    sys = "enumerator" =>
        (is_exhausted(config, gen) <=> current_index(config, gen) >= GenTotal(config))

(***************************************************************************)
(* C39.  Termination.  When every request returns and every save succeeds, *)
(* every probe that waits for the gate eventually gets past it, every      *)
(* batch is eventually joined, and run eventually returns with completed   *)
(* set; recheck_expiring_soon eventually returns as well, for every        *)
(* concurrency, 0 included.                                                *)
(***************************************************************************)
ProbeSlots == 1..Max(MaxBatchSize * 2, MaxEntries)

Waits(i) == pc \in {"join", "rk_join"} /\ i <= Len(tasks) /\ tasks[i].st = "wait"

RunReturns == (sys = "snipe") ~> (pc = "done" /\ state.completed)

RecheckReturns ==
    (sys = "recheck" /\ pc \in {"rk_load", "rk_start", "rk_join"})
        ~> (pc = "rk_done" /\ IsSome(ret))

C39_Termination ==
    /\ \A i \in ProbeSlots : Waits(i) ~> ~Waits(i)
    /\ (pc \in {"join", "rk_join"}) ~> (pc \notin {"join", "rk_join"})
    /\ RunReturns
    /\ RecheckReturns

(* A recheck with concurrency 0 has made its probes and has returned. *)
C39_Witness ==
    /\ sys = "recheck" /\ config.concurrency = 0
    /\ pc = "rk_done" /\ IsSome(ret) /\ Unwrap(ret).total_checked > 1

(***************************************************************************)
(* C40.  Recheck conservation and frame.  After recheck_expiring_soon      *)
(* every fqdn of available, expiring_soon and expired was in one of them   *)
(* before the call, every fqdn is there at most as often as it was before, *)
(* an entry whose probe failed (no endpoint for the TLD, a transport       *)
(* error, a status other than 200 and 404, or a body that does not parse)  *)
(* is in the bucket it was in, as it was; and errors, current_index,       *)
(* checked_count, error_count, completed, scan_id and tlds are as the call *)
(* found them.                                                             *)
(***************************************************************************)
ThreeBuckets(st) == st.available \o st.expiring_soon \o st.expired

Times(fq, st) ==
    Cardinality({k \in 1..Len(ThreeBuckets(st)) :
                    Fqdn(ThreeBuckets(st)[k].domain, ThreeBuckets(st)[k].tld) = fq})

ProbeFailed(e) ==
    LET fq == Fqdn(e.domain, e.tld)
    IN \/ ~IsSome(rdap_base_url(e.tld))
       \/ /\ fq \in DOMAIN registry
          /\ \/ registry[fq].code \notin {200, 404}
             \/ registry[fq].code = 200 /\ ~registry[fq].json

Conserved(before, after) ==
    /\ \A fq \in Range(Fqdns(ThreeBuckets(after))) :
          Times(fq, before) > 0 /\ Times(fq, after) <= Times(fq, before)
    /\ \A b \in {"available", "expiring_soon", "expired"} :
          \A k \in 1..Len(before[b]) :
             ProbeFailed(before[b][k]) => before[b][k] \in Range(after[b])

RecheckFrame(before, after) ==
    /\ after.errors = before.errors
    /\ after.current_index = before.current_index
    /\ after.checked_count = before.checked_count
    /\ after.error_count = before.error_count
    /\ after.completed = before.completed
    /\ after.scan_id = before.scan_id
    /\ after.tlds = before.tlds

C40_RecheckConservation ==
    (Rechecked /\ world.static) =>
        /\ Conserved(Unwrap(hist.before), state)
        /\ RecheckFrame(Unwrap(hist.before), state)

(* A recheck of a state with a recorded error: the entry under the TLD     *)
(* without an endpoint is kept where it was, and a.com, whose probe        *)
(* succeeded, has changed bucket.                                          *)
C40_Witness ==
    /\ Rechecked /\ world.static
    /\ Len(state.errors) > 0
    /\ \E b \in {"available", "expiring_soon", "expired"} :
          \E k \in 1..Len(Unwrap(hist.before)[b]) :
             /\ Unwrap(hist.before)[b][k].tld = "xx"
             /\ Unwrap(hist.before)[b][k] \in Range(state[b])
    /\ Fqdn(<<"a">>, "com") \in Range(Fqdns(Unwrap(hist.before).expiring_soon))
    /\ Fqdn(<<"a">>, "com") \in Range(Fqdns(state.available))

====
